---- MODULE Spec2Model ----
(***************************************************************************)
(* Model of the jsonformat package (src/formatter.go): the Config,         *)
(* the Formatter.Format loop over the tokens of a json.Decoder, and the    *)
(* TokenParser engine that lays the tokens out in a strings.Builder.       *)
(*                                                                         *)
(* Text (the input of the decoder, the content of the builder) is a       *)
(* sequence of one-character strings.  An error is the chain of messages  *)
(* of a FormatError and the errors it wraps, the position of a FormatError *)
(* that has one after its message; the nil error is <<>>.                 *)
(***************************************************************************)
EXTENDS Integers, Sequences, FiniteSets, TLC

(***************************************************************************)
(* Bounds of the model.                                                    *)
(***************************************************************************)
\* Longest token stream the decoder delivers in one Format call of the model.
MaxTokens == 7

(***************************************************************************)
(* Program constants.                                                      *)
(***************************************************************************)
MaxDepth == 100
MaxTokenCount == 10000
MaxStringLen == 1000000
MaxIndentChars == 10000
MaxIndentSize == 20

(***************************************************************************)
(* Errors.                                                                 *)
(***************************************************************************)
NoError == <<>>

NewFormatError(msg) == <<msg>>

WrapFormatError(msg, e) == <<msg>> \o e

\* Position 0 is the position of a FormatError made without one.
WrapFormatErrorWithPosition(msg, position, e) ==
  IF position = 0 THEN WrapFormatError(msg, e) ELSE <<msg, position>> \o e

(***************************************************************************)
(* Config.  isNil models a nil *Config.                                    *)
(***************************************************************************)
Config(indentSize, useTab, compactDepth) ==
  [isNil |-> FALSE, IndentSize |-> indentSize, UseTab |-> useTab,
   CompactDepth |-> compactDepth]

DefaultConfig == Config(2, FALSE, 3)

(***************************************************************************)
(* Characters.  A character is a one-character string.  Ascii holds the    *)
(* characters U+0001 to U+007F in the order of their codes: Ascii[n] is    *)
(* the character of code n.  U+0000, U+0060, U+2028 and U+2029 cannot be   *)
(* written in a string of the model (the place of U+0060 in Ascii holds    *)
(* the empty string); every other character can.                           *)
(***************************************************************************)
Ascii ==
  <<"", "", "", "", "", "", "", "",
    "\t", "\n", "", "\f", "\r", "", "", "",
    "", "", "", "", "", "", "", "",
    "", "", "", "", "", "", "", " ",
    "!", "\"", "#", "$", "%", "&", "'", "(",
    ")", "*", "+", ",", "-", ".", "/", "0",
    "1", "2", "3", "4", "5", "6", "7", "8",
    "9", ":", ";", "<", "=", ">", "?", "@",
    "A", "B", "C", "D", "E", "F", "G", "H",
    "I", "J", "K", "L", "M", "N", "O", "P",
    "Q", "R", "S", "T", "U", "V", "W", "X",
    "Y", "Z", "[", "\\", "]", "^", "_", "",
    "a", "b", "c", "d", "e", "f", "g", "h",
    "i", "j", "k", "l", "m", "n", "o", "p",
    "q", "r", "s", "t", "u", "v", "w", "x",
    "y", "z", "{", "|", "}", "~", "">>

\* c < 0x20
isControl(c) == \E n \in 1..31 : Ascii[n] = c

(***************************************************************************)
(* json.Marshal of a string (encoding/json appendString with escapeHTML    *)
(* on): the quote and the backslash get a backslash; the control           *)
(* characters get the short escapes \b \f \n \r \t or \u00XX; the          *)
(* characters < > & get \u003c \u003e \u0026; every other character is     *)
(* copied.                                                                 *)
(***************************************************************************)
\* The characters appendString does not copy.
EscapedChars == {Ascii[n] : n \in 1..31} \cup {"\"", "\\", "<", ">", "&"}

EscapeChar(c) ==
  LET hex == <<"0", "1", "2", "3", "4", "5", "6", "7", "8", "9",
               "a", "b", "c", "d", "e", "f">>
      b == CHOOSE n \in 1..31 : Ascii[n] = c
  IN IF c \notin EscapedChars THEN <<c>>
     ELSE CASE c \in {"\"", "\\"} -> <<"\\", c>>
            [] c = Ascii[8] -> <<"\\", "b">>
            [] c = "\f" -> <<"\\", "f">>
            [] c = "\n" -> <<"\\", "n">>
            [] c = "\r" -> <<"\\", "r">>
            [] c = "\t" -> <<"\\", "t">>
            [] c = "<" -> <<"\\", "u", "0", "0", "3", "c">>
            [] c = ">" -> <<"\\", "u", "0", "0", "3", "e">>
            [] c = "&" -> <<"\\", "u", "0", "0", "2", "6">>
            [] OTHER -> <<"\\", "u", "0", "0", hex[(b \div 16) + 1], hex[(b % 16) + 1]>>

\* The escaped characters s[lo] to s[hi], one half of them after the other.
RECURSIVE EscapeRange(_, _, _)
EscapeRange(s, lo, hi) ==
  IF lo > hi THEN <<>>
  ELSE IF lo = hi THEN EscapeChar(s[lo])
  ELSE LET mid == (lo + hi) \div 2 IN
       EscapeRange(s, lo, mid) \o EscapeRange(s, mid + 1, hi)

EscapeChars(s) == EscapeRange(s, 1, Len(s))

MarshalString(s) == <<"\"">> \o EscapeChars(s) \o <<"\"">>

(***************************************************************************)
(* float64.  A finite value is kept as the shortest decimal that reads     *)
(* back as the same float64 (what strconv formats with precision -1):      *)
(* the sign, the significant digits d1...dn (d1 and dn not 0; none for     *)
(* zero) and the place dp of the decimal point, the value being            *)
(* 0.d1...dn x 10^dp.  A decimal of at most 15 significant digits          *)
(* in the range of the normal float64 values is its own shortest decimal;  *)
(* the model holds no other finite value.                                  *)
(***************************************************************************)
Float64(neg, digits, dp) ==
  [class |-> "finite", neg |-> neg, digits |-> digits, dp |-> dp]

\* The value that is not equal to itself (value != value).
NaN == [class |-> "NaN", neg |-> FALSE, digits |-> <<>>, dp |-> 0]

\* The two values for which value == value+1 && value == value*2: value + 1
\* is value for the infinities and the large finite values, value * 2 is
\* value for the infinities and zero.
Inf(neg) == [class |-> "Inf", neg |-> neg, digits |-> <<>>, dp |-> 0]

\* The decimal digits of a natural number.
RECURSIVE FormatInt(_)
FormatInt(n) ==
  IF n < 10 THEN <<Ascii[48 + n]>>
  ELSE Append(FormatInt(n \div 10), Ascii[48 + (n % 10)])

\* digits without the zeros at its head.
RECURSIVE TrimLeft(_)
TrimLeft(digits) ==
  IF digits # <<>> /\ Head(digits) = "0" THEN TrimLeft(Tail(digits)) ELSE digits

\* digits without the zeros at its end.
RECURSIVE TrimRight(_)
TrimRight(digits) ==
  IF digits # <<>> /\ digits[Len(digits)] = "0"
  THEN TrimRight(SubSeq(digits, 1, Len(digits) - 1))
  ELSE digits

\* float64(n) of a natural number n.
Float(n) ==
  IF n = 0 THEN Float64(FALSE, <<>>, 0)
  ELSE Float64(FALSE, TrimRight(FormatInt(n)), Len(FormatInt(n)))

\* json.Marshal of a finite float64 (encoding/json floatEncoder):
\* strconv.AppendFloat with the format 'e' when abs < 1e-6 or abs >= 1e21,
\* the exponent cleaned up (e-09 becomes e-9), and with the format 'f'
\* otherwise; the precision is -1, the shortest decimal.
MarshalNumber(value) ==
  LET digits == value.digits
      dp == value.dp
      Zeros(n) == [i \in 1..n |-> "0"]
      fixed ==
        IF dp <= 0 THEN <<"0", ".">> \o Zeros(-dp) \o digits
        ELSE IF dp >= Len(digits) THEN digits \o Zeros(dp - Len(digits))
        ELSE SubSeq(digits, 1, dp) \o <<".">> \o SubSeq(digits, dp + 1, Len(digits))
      exp == dp - 1
      scientific ==
        <<Head(digits)>>
        \o (IF Len(digits) > 1 THEN <<".">> \o Tail(digits) ELSE <<>>)
        \o <<"e", IF exp < 0 THEN "-" ELSE "+">>
        \o FormatInt(IF exp < 0 THEN -exp ELSE exp)
  IN (IF value.neg THEN <<"-">> ELSE <<>>)
     \o (IF digits = <<>> THEN <<"0">>
         ELSE IF dp < -5 \/ dp > 21 THEN scientific
         ELSE fixed)

(***************************************************************************)
(* Tokens of encoding/json: a Delim, a string, a float64, a bool or nil.   *)
(* Every token carries the same fields so that tokens of different kinds   *)
(* can be compared; the fields a kind does not use hold a fixed filler.    *)
(***************************************************************************)
Delim(c) == [kind |-> "delim", s |-> <<c>>, n |-> Float(0), b |-> FALSE]

StringToken(s) == [kind |-> "string", s |-> s, n |-> Float(0), b |-> FALSE]

NumberToken(n) == [kind |-> "number", s |-> <<>>, n |-> n, b |-> FALSE]

BoolToken(b) == [kind |-> "bool", s |-> <<>>, n |-> Float(0), b |-> b]

NullToken == [kind |-> "null", s |-> <<>>, n |-> Float(0), b |-> FALSE]

\* A token of another Go type, which a test may hand to processToken and
\* the decoder never returns: the kind is the name of the type.
IntToken == [kind |-> "int", s |-> <<>>, n |-> Float(0), b |-> FALSE]

\* strings.Repeat(c, n): the text, or the value it panics with.
Repeat(c, n) ==
  IF n < 0 THEN [text |-> <<>>, panic |-> <<"strings: negative Repeat count">>]
  ELSE IF n = 0 THEN [text |-> <<>>, panic |-> <<>>]
  ELSE [text |-> [i \in 1..n |-> c], panic |-> <<>>]

(***************************************************************************)
(* TokenParser.  A handler returns the parser it leaves and its error.     *)
(***************************************************************************)
NewParser(config) ==
  [depth |-> 0, inArray |-> <<>>, builder |-> <<>>, config |-> config,
   isFirstElement |-> TRUE, expectingKey |-> FALSE]

Ok(p) == [p |-> p, err |-> NoError]

Fail(p, msg) == [p |-> p, err |-> NewFormatError(msg)]

\* A panic with the value v, of the kind "error", "string" or "other", in a
\* call on the parser p: the call does not return, and no caller does until
\* a deferred function recovers the panic.  What unwinds is kept in the
\* place of the error, the mark first.
Panics(p, kind, v) == [p |-> p, err |-> <<"panic", kind, v>>]

IsPanic(e) == Len(e) = 3 /\ e[1] = "panic"

\* if err := call; err != nil { return WrapFormatError(msg, err) }
Wrap(msg, r) ==
  IF r.err = NoError \/ IsPanic(r.err) THEN r
  ELSE [p |-> r.p, err |-> WrapFormatError(msg, r.err)]

\* The statements after a call that returned r, run only when r.err is nil.
Then(r, Rest(_)) == IF r.err = NoError THEN Rest(r.p) ELSE r

WriteString(p, text) == [p EXCEPT !.builder = @ \o text]

\* Mutant of isInArray: the bottom of the stack is looked at.
isInArrayBottom(p) ==
  IF Len(p.inArray) = 0 THEN FALSE ELSE p.inArray[1]

isInArray(p) ==
  IF Len(p.inArray) = 0 THEN FALSE ELSE p.inArray[Len(p.inArray)]

\* Mutants of shouldFormatCompact: the threshold compared the wrong way round,
\* and compared strictly.
shouldFormatCompactBelow(p) ==
  p.config.CompactDepth > 0 /\ p.depth <= p.config.CompactDepth

shouldFormatCompactStrict(p) ==
  p.config.CompactDepth > 0 /\ p.depth > p.config.CompactDepth

shouldFormatCompact(p) ==
  p.config.CompactDepth > 0 /\ p.depth >= p.config.CompactDepth

\* Mutant of writeIndent: the width written is stored in the configuration.
writeIndentStoring(p) ==
  IF p.config.UseTab THEN Ok(WriteString(p, Repeat("\t", p.depth).text))
  ELSE LET totalSpaces == p.depth * p.config.IndentSize IN
       Ok([WriteString(p, Repeat(" ", totalSpaces).text)
             EXCEPT !.config.IndentSize = totalSpaces])

\* Mutant of writeIndent: the depth before the pop, one level too many.
writeIndentDeeper(p) ==
  IF p.config.UseTab THEN Ok(WriteString(p, Repeat("\t", p.depth + 1).text))
  ELSE Ok(WriteString(p, Repeat(" ", (p.depth + 1) * p.config.IndentSize).text))

writeIndent(p) ==
  IF p.config.isNil THEN Fail(p, "invalid parser state: config is nil")
  ELSE IF p.depth < 0 THEN Fail(p, "invalid parser state: negative depth")
  ELSE LET Write(indentStr) ==
             IF indentStr.panic # <<>> THEN Panics(p, "string", indentStr.panic[1])
             ELSE Ok(WriteString(p, indentStr.text))
       IN IF p.config.UseTab THEN Write(Repeat("\t", p.depth))
          ELSE LET totalSpaces == p.depth * p.config.IndentSize IN
               IF totalSpaces > MaxIndentChars
               THEN Fail(p, "indentation too large (exceeds 10000 characters)")
               ELSE Write(Repeat(" ", totalSpaces))

writeNewlineAndIndent(p) ==
  Wrap("failed to write indentation after newline",
       writeIndent(WriteString(p, <<"\n">>)))

escapeString(s) ==
  IF Len(s) > MaxStringLen
  THEN [text |-> <<>>,
        err |-> NewFormatError("string too large for escaping (exceeds 1MB limit)")]
  ELSE LET escapedStr == MarshalString(s) IN
       IF Len(escapedStr) >= 2 /\ escapedStr[1] = "\""
          /\ escapedStr[Len(escapedStr)] = "\""
       THEN [text |-> SubSeq(escapedStr, 2, Len(escapedStr) - 1), err |-> NoError]
       ELSE [text |-> escapedStr, err |-> NoError]

formatNumber(value) ==
  IF value = NaN
  THEN [text |-> <<>>, err |-> NewFormatError("cannot format NaN as JSON number")]
  ELSE IF value \in {Inf(FALSE), Inf(TRUE)}
  THEN [text |-> <<>>,
        err |-> NewFormatError("cannot format infinite value as JSON number")]
  ELSE [text |-> MarshalNumber(value), err |-> NoError]

\* Mutant of depthLimitReached: the limit compared strictly.
depthLimitPassed(p) == p.depth > MaxDepth

\* if p.depth >= 100: the guard of startObject, startArray, enterObject and
\* enterArray.
depthLimitReached(p) == p.depth >= MaxDepth

enterArray(p) ==
  IF p.depth < 0 THEN Fail(p, "invalid parser state: negative depth")
  ELSE IF depthLimitReached(p)
  THEN Fail(p, "JSON structure too deeply nested (max depth: 100)")
  ELSE Ok([p EXCEPT !.depth = @ + 1, !.inArray = Append(@, TRUE)])

exitArray(p) ==
  IF p.depth <= 0
  THEN Fail(p, "invalid parser state: cannot exit array, depth is zero or negative")
  ELSE IF Len(p.inArray) = 0
  THEN Fail(p, "invalid parser state: cannot exit array, no array context")
  ELSE IF ~p.inArray[Len(p.inArray)]
  THEN Fail(p, "invalid parser state: cannot exit array, currently in object context")
  ELSE Ok([p EXCEPT !.depth = @ - 1,
                    !.inArray = SubSeq(@, 1, Len(@) - 1)])

enterObject(p) ==
  IF p.depth < 0 THEN Fail(p, "invalid parser state: negative depth")
  ELSE IF depthLimitReached(p)
  THEN Fail(p, "JSON structure too deeply nested (max depth: 100)")
  ELSE Ok([p EXCEPT !.depth = @ + 1, !.inArray = Append(@, FALSE)])

\* Mutant of exitObject: the depth is decremented and the stack is kept.
exitObjectDepthOnly(p) ==
  IF p.depth <= 0
  THEN Fail(p, "invalid parser state: cannot exit object, depth is zero or negative")
  ELSE IF Len(p.inArray) = 0
  THEN Fail(p, "invalid parser state: cannot exit object, no object context")
  ELSE IF p.inArray[Len(p.inArray)]
  THEN Fail(p, "invalid parser state: cannot exit object, currently in array context")
  ELSE Ok([p EXCEPT !.depth = @ - 1])

exitObject(p) ==
  IF p.depth <= 0
  THEN Fail(p, "invalid parser state: cannot exit object, depth is zero or negative")
  ELSE IF Len(p.inArray) = 0
  THEN Fail(p, "invalid parser state: cannot exit object, no object context")
  ELSE IF p.inArray[Len(p.inArray)]
  THEN Fail(p, "invalid parser state: cannot exit object, currently in array context")
  ELSE Ok([p EXCEPT !.depth = @ - 1,
                    !.inArray = SubSeq(@, 1, Len(@) - 1)])

\* Mutant of keyExpected: the check made outside of containers only.
keyExpectedAtTop(p) == p.expectingKey /\ p.depth = 0

\* if p.expectingKey && p.depth > 0: the check of startObject and startArray.
keyExpected(p) == p.expectingKey /\ p.depth > 0

startObject(p) ==
  IF p.config.isNil THEN Fail(p, "invalid parser state: config is nil")
  ELSE IF keyExpected(p)
  THEN Fail(p, "malformed JSON: unexpected object start, expected object key")
  ELSE IF depthLimitReached(p)
  THEN Fail(p, "JSON structure too deeply nested (max depth: 100)")
  ELSE
    LET sep ==
          IF ~p.isFirstElement /\ isInArray(p)
          THEN LET q == WriteString(p, <<",">>) IN
               IF shouldFormatCompact(q) THEN Ok(WriteString(q, <<" ">>))
               ELSE Wrap("failed to write newline and indent",
                         writeNewlineAndIndent(q))
          ELSE IF p.depth > 0 /\ isInArray(p)
          THEN IF shouldFormatCompact(p) THEN Ok(p)
               ELSE Wrap("failed to write newline and indent",
                         writeNewlineAndIndent(p))
          ELSE Ok(p)
        Open(q) ==
          LET w == IF q.depth > 0 /\ ~isInArray(q)
                   THEN WriteString(q, <<" ", "{">>)
                   ELSE WriteString(q, <<"{">>)
          IN Then(Wrap("failed to enter object state", enterObject(w)),
                  LAMBDA e : Ok([e EXCEPT !.isFirstElement = TRUE,
                                          !.expectingKey = TRUE]))
    IN Then(sep, Open)

\* Mutant of endObject: compactness is decided with the depth after the pop.
endObjectCompactAfterPop(p) ==
  IF p.config.isNil THEN Fail(p, "invalid parser state: config is nil")
  ELSE IF p.depth = 0
  THEN Fail(p, "malformed JSON: unexpected object end, no matching opening brace")
  ELSE IF Len(p.inArray) = 0
  THEN Fail(p, "malformed JSON: unexpected object end, invalid parser state")
  ELSE IF isInArray(p)
  THEN Fail(p, "malformed JSON: unexpected object end, currently in array context")
  ELSE
    LET Close(e) ==
          LET q == [e EXCEPT !.expectingKey = FALSE] IN
          IF shouldFormatCompact(q) THEN Ok(WriteString(q, <<"}">>))
          ELSE Then(Wrap("failed to write newline and indent",
                         writeNewlineAndIndent(q)),
                    LAMBDA w : Ok(WriteString(w, <<"}">>)))
    IN Then(Wrap("failed to exit object state", exitObject(p)), Close)

endObject(p) ==
  IF p.config.isNil THEN Fail(p, "invalid parser state: config is nil")
  ELSE IF p.depth = 0
  THEN Fail(p, "malformed JSON: unexpected object end, no matching opening brace")
  ELSE IF Len(p.inArray) = 0
  THEN Fail(p, "malformed JSON: unexpected object end, invalid parser state")
  ELSE IF isInArray(p)
  THEN Fail(p, "malformed JSON: unexpected object end, currently in array context")
  ELSE
    LET isCompact == shouldFormatCompact(p)
        Close(e) ==
          LET q == [e EXCEPT !.expectingKey = FALSE] IN
          IF isCompact THEN Ok(WriteString(q, <<"}">>))
          ELSE Then(Wrap("failed to write newline and indent",
                         writeNewlineAndIndent(q)),
                    LAMBDA w : Ok(WriteString(w, <<"}">>)))
    IN Then(Wrap("failed to exit object state", exitObject(p)), Close)

startArray(p) ==
  IF p.config.isNil THEN Fail(p, "invalid parser state: config is nil")
  ELSE IF keyExpected(p)
  THEN Fail(p, "malformed JSON: unexpected array start, expected object key")
  ELSE IF depthLimitReached(p)
  THEN Fail(p, "JSON structure too deeply nested (max depth: 100)")
  ELSE
    LET sep ==
          IF ~p.isFirstElement /\ isInArray(p)
          THEN LET q == WriteString(p, <<",">>) IN
               IF shouldFormatCompact(q) THEN Ok(WriteString(q, <<" ">>))
               ELSE Wrap("failed to write newline and indent",
                         writeNewlineAndIndent(q))
          ELSE Ok(p)
        Open(q) ==
          LET w == IF q.depth > 0 /\ ~isInArray(q)
                   THEN WriteString(q, <<" ", "[">>)
                   ELSE WriteString(q, <<"[">>)
          IN Then(Wrap("failed to enter array state", enterArray(w)),
                  LAMBDA e : Ok([e EXCEPT !.isFirstElement = TRUE,
                                          !.expectingKey = FALSE]))
    IN Then(sep, Open)

\* Mutant of endArray: a key is expected after every closing bracket.
endArrayExpectingKey(p) ==
  IF p.config.isNil THEN Fail(p, "invalid parser state: config is nil")
  ELSE IF p.depth = 0
  THEN Fail(p, "malformed JSON: unexpected array end, no matching opening bracket")
  ELSE IF Len(p.inArray) = 0
  THEN Fail(p, "malformed JSON: unexpected array end, invalid parser state")
  ELSE IF ~isInArray(p)
  THEN Fail(p, "malformed JSON: unexpected array end, currently in object context")
  ELSE
    LET isCompact == shouldFormatCompact(p)
        After(w) == Ok([WriteString(w, <<"]">>) EXCEPT !.expectingKey = TRUE])
        Close(e) ==
          IF isCompact THEN After(e)
          ELSE Then(Wrap("failed to write newline and indent",
                         writeNewlineAndIndent(e)), After)
    IN Then(Wrap("failed to exit array state", exitArray(p)), Close)

endArray(p) ==
  IF p.config.isNil THEN Fail(p, "invalid parser state: config is nil")
  ELSE IF p.depth = 0
  THEN Fail(p, "malformed JSON: unexpected array end, no matching opening bracket")
  ELSE IF Len(p.inArray) = 0
  THEN Fail(p, "malformed JSON: unexpected array end, invalid parser state")
  ELSE IF ~isInArray(p)
  THEN Fail(p, "malformed JSON: unexpected array end, currently in object context")
  ELSE
    LET isCompact == shouldFormatCompact(p)
        After(w) ==
          LET q == WriteString(w, <<"]">>) IN
          IF ~isInArray(q) THEN Ok([q EXCEPT !.expectingKey = TRUE]) ELSE Ok(q)
        Close(e) ==
          IF isCompact THEN After(e)
          ELSE Then(Wrap("failed to write newline and indent",
                         writeNewlineAndIndent(e)), After)
    IN Then(Wrap("failed to exit array state", exitArray(p)), Close)

\* Mutant of tooLong: the limit compared one character early.
tooLongEarly(value) == Len(value) >= MaxStringLen

\* if len(value) > 1000000
tooLong(value) == Len(value) > MaxStringLen

handleString(p, value) ==
  IF p.config.isNil THEN Fail(p, "invalid parser state: config is nil")
  ELSE IF tooLong(value)
  THEN Fail(p, "string value too large (exceeds 1MB limit)")
  ELSE IF p.expectingKey
  THEN
    IF p.depth = 0 \/ isInArray(p)
    THEN Fail(p, "malformed JSON: unexpected object key outside of object context")
    ELSE
      LET sep ==
            IF ~p.isFirstElement
            THEN LET q == WriteString(p, <<",">>) IN
                 IF shouldFormatCompact(q) THEN Ok(WriteString(q, <<" ">>))
                 ELSE Wrap("failed to write newline and indent",
                           writeNewlineAndIndent(q))
            ELSE IF p.depth > 0 /\ ~shouldFormatCompact(p)
            THEN Wrap("failed to write newline and indent",
                      writeNewlineAndIndent(p))
            ELSE Ok(p)
          Key(q) ==
            LET esc == escapeString(value) IN
            IF esc.err # NoError
            THEN [p |-> WriteString(q, <<"\"">>),
                  err |-> WrapFormatError("failed to escape object key", esc.err)]
            ELSE LET w == WriteString(q, <<"\"">> \o esc.text \o <<"\"", ":">>) IN
                 Ok([w EXCEPT !.isFirstElement = FALSE, !.expectingKey = FALSE])
      IN Then(sep, Key)
  ELSE
    LET sep ==
          IF ~p.isFirstElement /\ isInArray(p)
          THEN LET q == WriteString(p, <<",">>) IN
               IF shouldFormatCompact(q) THEN Ok(WriteString(q, <<" ">>))
               ELSE Wrap("failed to write newline and indent",
                         writeNewlineAndIndent(q))
          ELSE IF p.depth > 0 /\ isInArray(p)
          THEN IF shouldFormatCompact(p) THEN Ok(p)
               ELSE Wrap("failed to write newline and indent",
                         writeNewlineAndIndent(p))
          ELSE Ok(p)
        Value(q) ==
          LET o == IF q.depth > 0 /\ ~isInArray(q)
                   THEN WriteString(q, <<" ", "\"">>)
                   ELSE WriteString(q, <<"\"">>)
              esc == escapeString(value)
          IN IF esc.err # NoError
             THEN [p |-> o,
                   err |-> WrapFormatError("failed to escape string value", esc.err)]
             ELSE LET w == WriteString(o, esc.text \o <<"\"">>)
                      f == [w EXCEPT !.isFirstElement = FALSE]
                  IN IF ~isInArray(f) THEN Ok([f EXCEPT !.expectingKey = TRUE])
                     ELSE Ok(f)
    IN Then(sep, Value)

\* The decoder delivers finite numbers only: the NaN and infinity checks
\* fire in a direct call of handleNumber, and those of formatNumber never.
handleNumber(p, value) ==
  IF p.config.isNil THEN Fail(p, "invalid parser state: config is nil")
  ELSE IF p.expectingKey
  THEN Fail(p, "malformed JSON: unexpected number, expected object key")
  ELSE IF value = NaN
  THEN Fail(p, "invalid JSON: NaN values are not allowed")
  ELSE IF value \in {Inf(FALSE), Inf(TRUE)}
  THEN Fail(p, "invalid JSON: infinite values are not allowed")
  ELSE
    LET sep ==
          IF ~p.isFirstElement /\ isInArray(p)
          THEN LET q == WriteString(p, <<",">>) IN
               IF shouldFormatCompact(q) THEN Ok(WriteString(q, <<" ">>))
               ELSE Wrap("failed to write newline and indent",
                         writeNewlineAndIndent(q))
          ELSE IF p.depth > 0 /\ isInArray(p)
          THEN IF shouldFormatCompact(p) THEN Ok(p)
               ELSE Wrap("failed to write newline and indent",
                         writeNewlineAndIndent(p))
          ELSE Ok(p)
        Value(q) ==
          LET formattedNumber == formatNumber(value) IN
          IF formattedNumber.err # NoError
          THEN [p |-> q,
                err |-> WrapFormatError("failed to format number",
                                        formattedNumber.err)]
          ELSE LET w == IF q.depth > 0 /\ ~isInArray(q)
                        THEN WriteString(q, <<" ">> \o formattedNumber.text)
                        ELSE WriteString(q, formattedNumber.text)
                   f == [w EXCEPT !.isFirstElement = FALSE]
               IN IF ~isInArray(f) THEN Ok([f EXCEPT !.expectingKey = TRUE])
                  ELSE Ok(f)
    IN Then(sep, Value)

\* Mutant of handleBoolean: the element is marked as processed before the
\* key check.
handleBooleanMarkingFirst(p, value) ==
  IF p.config.isNil THEN Fail(p, "invalid parser state: config is nil")
  ELSE IF p.expectingKey
  THEN Fail([p EXCEPT !.isFirstElement = FALSE],
            "malformed JSON: unexpected boolean, expected object key")
  ELSE
    LET sep ==
          IF ~p.isFirstElement /\ isInArray(p)
          THEN LET q == WriteString(p, <<",">>) IN
               IF shouldFormatCompact(q) THEN Ok(WriteString(q, <<" ">>))
               ELSE Wrap("failed to write newline and indent",
                         writeNewlineAndIndent(q))
          ELSE IF p.depth > 0 /\ isInArray(p)
          THEN IF shouldFormatCompact(p) THEN Ok(p)
               ELSE Wrap("failed to write newline and indent",
                         writeNewlineAndIndent(p))
          ELSE Ok(p)
        Value(q) ==
          LET boolStr == IF value THEN <<"t", "r", "u", "e">>
                         ELSE <<"f", "a", "l", "s", "e">>
              w == IF q.depth > 0 /\ ~isInArray(q)
                   THEN WriteString(q, <<" ">> \o boolStr)
                   ELSE WriteString(q, boolStr)
              f == [w EXCEPT !.isFirstElement = FALSE]
          IN IF ~isInArray(f) THEN Ok([f EXCEPT !.expectingKey = TRUE])
             ELSE Ok(f)
    IN Then(sep, Value)

handleBoolean(p, value) ==
  IF p.config.isNil THEN Fail(p, "invalid parser state: config is nil")
  ELSE IF p.expectingKey
  THEN Fail(p, "malformed JSON: unexpected boolean, expected object key")
  ELSE
    LET sep ==
          IF ~p.isFirstElement /\ isInArray(p)
          THEN LET q == WriteString(p, <<",">>) IN
               IF shouldFormatCompact(q) THEN Ok(WriteString(q, <<" ">>))
               ELSE Wrap("failed to write newline and indent",
                         writeNewlineAndIndent(q))
          ELSE IF p.depth > 0 /\ isInArray(p)
          THEN IF shouldFormatCompact(p) THEN Ok(p)
               ELSE Wrap("failed to write newline and indent",
                         writeNewlineAndIndent(p))
          ELSE Ok(p)
        Value(q) ==
          LET boolStr == IF value THEN <<"t", "r", "u", "e">>
                         ELSE <<"f", "a", "l", "s", "e">>
              w == IF q.depth > 0 /\ ~isInArray(q)
                   THEN WriteString(q, <<" ">> \o boolStr)
                   ELSE WriteString(q, boolStr)
              f == [w EXCEPT !.isFirstElement = FALSE]
          IN IF ~isInArray(f) THEN Ok([f EXCEPT !.expectingKey = TRUE])
             ELSE Ok(f)
    IN Then(sep, Value)

\* Mutant of handleNull: expectingKey is left as it was.
handleNullKeepingFlag(p) ==
  IF p.config.isNil THEN Fail(p, "invalid parser state: config is nil")
  ELSE IF p.expectingKey
  THEN Fail(p, "malformed JSON: unexpected null, expected object key")
  ELSE
    LET sep ==
          IF ~p.isFirstElement /\ isInArray(p)
          THEN LET q == WriteString(p, <<",">>) IN
               IF shouldFormatCompact(q) THEN Ok(WriteString(q, <<" ">>))
               ELSE Wrap("failed to write newline and indent",
                         writeNewlineAndIndent(q))
          ELSE IF p.depth > 0 /\ isInArray(p)
          THEN IF shouldFormatCompact(p) THEN Ok(p)
               ELSE Wrap("failed to write newline and indent",
                         writeNewlineAndIndent(p))
          ELSE Ok(p)
        Value(q) ==
          LET w == IF q.depth > 0 /\ ~isInArray(q)
                   THEN WriteString(q, <<" ", "n", "u", "l", "l">>)
                   ELSE WriteString(q, <<"n", "u", "l", "l">>)
          IN Ok([w EXCEPT !.isFirstElement = FALSE])
    IN Then(sep, Value)

handleNull(p) ==
  IF p.config.isNil THEN Fail(p, "invalid parser state: config is nil")
  ELSE IF p.expectingKey
  THEN Fail(p, "malformed JSON: unexpected null, expected object key")
  ELSE
    LET sep ==
          IF ~p.isFirstElement /\ isInArray(p)
          THEN LET q == WriteString(p, <<",">>) IN
               IF shouldFormatCompact(q) THEN Ok(WriteString(q, <<" ">>))
               ELSE Wrap("failed to write newline and indent",
                         writeNewlineAndIndent(q))
          ELSE IF p.depth > 0 /\ isInArray(p)
          THEN IF shouldFormatCompact(p) THEN Ok(p)
               ELSE Wrap("failed to write newline and indent",
                         writeNewlineAndIndent(p))
          ELSE Ok(p)
        Value(q) ==
          LET w == IF q.depth > 0 /\ ~isInArray(q)
                   THEN WriteString(q, <<" ", "n", "u", "l", "l">>)
                   ELSE WriteString(q, <<"n", "u", "l", "l">>)
              f == [w EXCEPT !.isFirstElement = FALSE]
          IN IF ~isInArray(f) THEN Ok([f EXCEPT !.expectingKey = TRUE])
             ELSE Ok(f)
    IN Then(sep, Value)

handleDelimiter(p, delim) ==
  CASE delim = "{" -> startObject(p)
    [] delim = "}" -> endObject(p)
    [] delim = "[" -> startArray(p)
    [] delim = "]" -> endArray(p)
    [] OTHER -> Fail(p, "unknown delimiter: " \o delim)

processToken(p, token) ==
  IF p.depth < 0 THEN Fail(p, "invalid parser state: negative depth")
  ELSE IF p.depth > MaxDepth
  THEN Fail(p, "JSON structure too deeply nested (max depth: 100)")
  ELSE CASE token.kind = "delim" -> handleDelimiter(p, token.s[1])
         [] token.kind = "string" -> handleString(p, token.s)
         [] token.kind = "number" -> handleNumber(p, token.n)
         [] token.kind = "bool" -> handleBoolean(p, token.b)
         [] token.kind = "null" -> handleNull(p)
         [] OTHER -> Fail(p, "unknown token type: " \o token.kind)

(***************************************************************************)
(* json.Decoder.Token of encoding/json, which Format calls for every       *)
(* token.  The decoder holds the unread text and its token state; Token    *)
(* skips white space, commas and colons where the grammar allows them and  *)
(* returns the next token, io.EOF at the end of the text (also inside an   *)
(* open container), or a syntax error.  The texts of the model hold        *)
(* strings, numbers, true, false and null.                                 *)
(*                                                                         *)
(* The decoder takes the input from the strings.Reader in reads that fill  *)
(* its buffer.  off is the offset of dec.scanp in the input                *)
(* (Decoder.InputOffset), cap the capacity of the buffer and read the      *)
(* offset the reads have filled the buffer up to on an input that does not *)
(* end before: the reader has given the input up to read, or all of it.    *)
(* A scan tells in seen how many characters the scanner has looked at,     *)
(* the end of the text counted as one: the one that follows a scalar, or   *)
(* the one the scanner rejects.  err is the text of the error (Error()):   *)
(* of a *SyntaxError for a character the scanner or Token rejects, of      *)
(* io.ErrUnexpectedEOF for a value the end of the input cuts short, of an  *)
(* *UnmarshalTypeError for a number no float64 holds, "" with a token.     *)
(***************************************************************************)
NewDecoder(text) ==
  [buf |-> text, off |-> 0, read |-> 0, cap |-> 0,
   tokenState |-> "tokenTopValue", tokenStack |-> <<>>]

\* The refills of the decoder, dec.scanp being at the offset scanp of the
\* input, after which the buffer holds the character at the offset x of the
\* input, or the input has ended before x.  In Decoder.refill the characters
\* before dec.scanp slide out of the buffer, the buffer grows when fewer
\* than minRead places of it are free, and one Read of the reader fills the
\* free places.
RECURSIVE fill(_, _, _)
fill(dec, scanp, x) ==
  LET minRead == 512
      len == dec.read - scanp
      cap == IF dec.cap - len < minRead THEN 2 * dec.cap + minRead ELSE dec.cap
      refill == [dec EXCEPT !.cap = cap, !.read = scanp + cap]
  IN IF dec.read > x THEN dec ELSE fill(refill, scanp, x)

isSpace(c) == c \in {" ", "\t", "\r", "\n"}

IsDigit(c) == c \in {"0", "1", "2", "3", "4", "5", "6", "7", "8", "9"}

DigitValue(c) == CASE c = "0" -> 0 [] c = "1" -> 1 [] c = "2" -> 2 [] c = "3" -> 3
                   [] c = "4" -> 4 [] c = "5" -> 5 [] c = "6" -> 6 [] c = "7" -> 7
                   [] c = "8" -> 8 [] c = "9" -> 9

tokenValueAllowed(ts) ==
  ts \in {"tokenTopValue", "tokenArrayStart", "tokenArrayValue", "tokenObjectValue"}

tokenValueEnd(ts) ==
  CASE ts \in {"tokenArrayStart", "tokenArrayValue"} -> "tokenArrayComma"
    [] ts = "tokenObjectValue" -> "tokenObjectComma"
    [] OTHER -> ts

\* The character a backslash and the letter c stand for.
Unescape(c) ==
  CASE c \in {"\"", "\\", "/"} -> c
    [] c = "b" -> Ascii[8]
    [] c = "f" -> "\f"
    [] c = "n" -> "\n"
    [] c = "r" -> "\r"
    [] c = "t" -> "\t"

\* quoteChar(c): the character between single quotes, written as
\* strconv.Quote writes it.
quoteChar(c) ==
  LET hex == <<"0", "1", "2", "3", "4", "5", "6", "7", "8", "9",
               "a", "b", "c", "d", "e", "f">>
      b == CHOOSE n \in 1..Len(Ascii) : Ascii[n] = c
  IN CASE c = "'" -> "'\\''"
       [] c = "\"" -> "'\"'"
       [] c = "\\" -> "'\\\\'"
       [] c = Ascii[7] -> "'\\a'"
       [] c = Ascii[8] -> "'\\b'"
       [] c = "\f" -> "'\\f'"
       [] c = "\n" -> "'\\n'"
       [] c = "\r" -> "'\\r'"
       [] c = "\t" -> "'\\t'"
       [] c = Ascii[11] -> "'\\v'"
       [] isControl(c) \/ c = Ascii[127] ->
            "'\\x" \o hex[(b \div 16) + 1] \o hex[(b % 16) + 1] \o "'"
       [] OTHER -> "'" \o c \o "'"

\* The error of readValue on a value the scanner does not accept, seen
\* being the place in text of the character it rejects (scanner.error(c,
\* context)), or the place after the end of text where the input ends
\* inside the value.
scanError(text, seen, context) ==
  IF seen > Len(text) THEN "unexpected EOF"
  ELSE "invalid character " \o quoteChar(text[seen]) \o " " \o context

\* The character of \uXXXX, the four digits being text[i] to text[i + 3], or
\* none when these are not four hexadecimal digits: an ASCII character in
\* the model.  digits is the number of hexadecimal digits from text[i] on,
\* four at most.
getu4(text, i) ==
  LET IsHex(c) ==
        IsDigit(c)
        \/ c \in {"a", "b", "c", "d", "e", "f", "A", "B", "C", "D", "E", "F"}
      HexValue(c) ==
        CASE IsDigit(c) -> DigitValue(c)
          [] c \in {"a", "A"} -> 10 [] c \in {"b", "B"} -> 11
          [] c \in {"c", "C"} -> 12 [] c \in {"d", "D"} -> 13
          [] c \in {"e", "E"} -> 14 [] c \in {"f", "F"} -> 15
      code == ((HexValue(text[i]) * 16 + HexValue(text[i + 1])) * 16
               + HexValue(text[i + 2])) * 16 + HexValue(text[i + 3])
      NoDigit(k) == i + k > Len(text) \/ ~IsHex(text[i + k])
  IN IF \E k \in 0..3 : NoDigit(k)
     THEN [ok |-> FALSE, c |-> "",
           digits |-> CHOOSE k \in 0..3 : NoDigit(k) /\ \A l \in 0..(k - 1) : ~NoDigit(l)]
     ELSE [ok |-> TRUE,
           c |-> CASE code \in 1..Len(Ascii) /\ Ascii[code] # "" -> Ascii[code],
           digits |-> 4]

\* The string literal at the head of text, text[1] being its opening quote:
\* the decoded characters and the number of characters read (0: not
\* terminated, a control character in the literal, or an escape that is
\* not one of JSON).
RECURSIVE ScanString(_, _, _)
ScanString(text, i, acc) ==
  LET failed(seen, context) ==
        [ok |-> FALSE, s |-> acc, len |-> 0, seen |-> seen,
         err |-> scanError(text, seen, context)]
  IN
  IF i > Len(text) THEN failed(i, "in string literal")
  ELSE IF text[i] = "\""
  THEN [ok |-> TRUE, s |-> acc, len |-> i, seen |-> i + 1, err |-> ""]
  ELSE IF text[i] = "\\"
  THEN IF i + 1 > Len(text) THEN failed(i + 1, "in string escape code")
       ELSE IF text[i + 1] \in {"\"", "\\", "/", "b", "f", "n", "r", "t"}
       THEN ScanString(text, i + 2, Append(acc, Unescape(text[i + 1])))
       ELSE IF text[i + 1] = "u"
       THEN LET Rune(u) == IF u.ok THEN ScanString(text, i + 6, Append(acc, u.c))
                           ELSE failed(i + 2 + u.digits,
                                       "in \\u hexadecimal character escape")
            IN Rune(getu4(text, i + 2))
       ELSE failed(i + 1, "in string escape code")
  ELSE IF isControl(text[i]) THEN failed(i, "in string literal")
  ELSE ScanString(text, i + 1, Append(acc, text[i]))

\* strconv.ParseFloat(s, 64) of the number whose integer digits, fraction
\* digits and exponent are given: the float64 nearest to it; a range
\* error above the largest float64, 1.79769313486231...e308; zero below
\* half the smallest one.  Between the two the number has at most 15
\* significant digits, those every float64 keeps, and is not below the
\* normal values.
ParseFloat(neg, int, frac, exp) ==
  LET max == <<"1", "7", "9", "7", "6", "9", "3", "1", "3", "4", "8", "6", "2",
               "3", "1">>
      \* The float64 of 0.d1...dn x 10^dp, digits being d1...dn.
      Round(digits, dp) ==
        LET \* The digits up to those of max read as a greater number than
            \* max, from the place i on.
            RECURSIVE Greater(_)
            Greater(i) ==
              IF i > Len(digits) \/ i > Len(max) THEN FALSE
              ELSE IF digits[i] # max[i]
              THEN DigitValue(digits[i]) > DigitValue(max[i])
              ELSE Greater(i + 1)
        IN CASE digits = <<>> \/ dp < -323 ->
                  [ok |-> TRUE, value |-> Float64(neg, <<>>, 0)]
             [] digits # <<>> /\ (dp > 309 \/ (dp = 309 /\ Greater(1))) ->
                  [ok |-> FALSE, value |-> Inf(neg)]
             [] digits # <<>> /\ Len(digits) <= Len(max) /\ dp > -307
                /\ (dp < 309 \/ (dp = 309 /\ ~Greater(1))) ->
                  [ok |-> TRUE, value |-> Float64(neg, digits, dp)]
  IN Round(TrimRight(TrimLeft(int \o frac)),
           Len(int) + exp - (Len(int \o frac) - Len(TrimLeft(int \o frac))))

\* Decode of the number at the head of text: the scanner reads an optional
\* minus sign, a 0 or a run of digits that starts with 1 to 9, an optional
\* fraction and an optional exponent, and ends the number at the first
\* character that cannot go on with it.  strconv takes a digit of the
\* exponent in while the exponent is below 10000.
ScanNumber(text) ==
  LET failed(seen, context) ==
        [ok |-> FALSE, token |-> NullToken, len |-> 0, seen |-> seen,
         err |-> scanError(text, seen, context)]
      \* The first place from i on where text holds no digit.
      RECURSIVE DigitsEnd(_)
      DigitsEnd(i) ==
        IF i <= Len(text) /\ IsDigit(text[i]) THEN DigitsEnd(i + 1) ELSE i
      \* The exponent of the digits text[i] to text[end], read after e.
      RECURSIVE ReadExp(_, _, _)
      ReadExp(i, end, e) ==
        IF i > end THEN e
        ELSE ReadExp(i + 1, end,
                     IF e < 10000 THEN e * 10 + DigitValue(text[i]) ELSE e)
      \* The characters text[i] to text[len] as one string.
      RECURSIVE Literal(_, _)
      Literal(i, len) ==
        IF i > len THEN "" ELSE text[i] \o Literal(i + 1, len)
      \* The number of len characters is read whole, and taken from the
      \* buffer, before strconv refuses it.
      Result(f, len) ==
        IF f.ok THEN [ok |-> TRUE, token |-> NumberToken(f.value), len |-> len,
                      seen |-> len + 1, err |-> ""]
        ELSE [ok |-> FALSE, token |-> NullToken, len |-> len, seen |-> len + 1,
              err |-> "json: cannot unmarshal number " \o Literal(1, len)
                        \o " into Go value of type float64"]
      \* The number whose integer digits are text[i] to text[j - 1], whose
      \* fraction digits are text[j + 1] to text[k - 1] (none when k = j)
      \* and whose exponent digits are text[m] to text[n - 1] (none when
      \* m = k), text[m - 1] being the sign of a signed exponent.  The
      \* integer, a fraction and an exponent hold one digit at least: the
      \* scanner rejects the character it finds in the place of the digit.
      Number(i, j, k, m, n) ==
        IF j = i THEN failed(i, "in numeric literal")
        ELSE IF k = j + 1 THEN failed(k, "after decimal point in numeric literal")
        ELSE IF m > k /\ n = m THEN failed(m, "in exponent of numeric literal")
        ELSE Result(ParseFloat(Head(text) = "-",
                               SubSeq(text, i, j - 1),
                               IF k > j THEN SubSeq(text, j + 1, k - 1) ELSE <<>>,
                               IF m = k THEN 0
                               ELSE IF text[m - 1] = "-" THEN -ReadExp(m, n - 1, 0)
                               ELSE ReadExp(m, n - 1, 0)),
                    n - 1)
      \* After e or E and its sign: digits.
      Exponent(i, j, k, m) ==
        Number(i, j, k, m, IF m > k THEN DigitsEnd(m) ELSE k)
      \* After the integer digits and the fraction: e or E, and a sign.
      Mantissa(i, j, k) ==
        Exponent(i, j, k,
                 IF k <= Len(text) /\ text[k] \in {"e", "E"}
                 THEN IF k + 1 <= Len(text) /\ text[k + 1] \in {"+", "-"}
                      THEN k + 2 ELSE k + 1
                 ELSE k)
      \* After the integer digits: a point and digits.
      Integer(i, j) ==
        Mantissa(i, j, IF j <= Len(text) /\ text[j] = "." THEN DigitsEnd(j + 1)
                       ELSE j)
      \* After the sign: 0, or a run of digits.
      Unsigned(i) ==
        Integer(i, IF i <= Len(text) /\ text[i] = "0" THEN i + 1 ELSE DigitsEnd(i))
  IN Unsigned(IF Head(text) = "-" THEN 2 ELSE 1)

\* Decode of one scalar value at the head of text.  A scalar that is not
\* read has the length 0; a number that is read and that no float64 holds
\* has its length and is not ok.
ScanScalar(text) ==
  LET c == Head(text)
      \* true, false or null, name being the word as a string: the scanner
      \* rejects the first character that is not the one of the word.
      Literal(word, name, token) ==
        LET Differs(n) == n > Len(text) \/ text[n] # word[n]
            Rejected(n) ==
              [ok |-> FALSE, token |-> NullToken, len |-> 0, seen |-> n,
               err |-> scanError(text, n, "in literal " \o name \o " (expecting '"
                                            \o word[n] \o "')")]
        IN
        IF \E n \in 1..Len(word) : Differs(n)
        THEN Rejected(CHOOSE n \in 1..Len(word) :
                        Differs(n) /\ \A m \in 1..(n - 1) : ~Differs(m))
        ELSE [ok |-> TRUE, token |-> token, len |-> Len(word),
              seen |-> Len(word) + 1, err |-> ""]
  IN
  IF c = "\"" THEN
    LET String(r) == [ok |-> r.ok, token |-> StringToken(r.s), len |-> r.len,
                      seen |-> r.seen, err |-> r.err]
    IN String(ScanString(text, 2, <<>>))
  ELSE IF c = "-" \/ IsDigit(c) THEN ScanNumber(text)
  ELSE IF c = "t" THEN Literal(<<"t", "r", "u", "e">>, "true", BoolToken(TRUE))
  ELSE IF c = "f"
  THEN Literal(<<"f", "a", "l", "s", "e">>, "false", BoolToken(FALSE))
  ELSE IF c = "n" THEN Literal(<<"n", "u", "l", "l">>, "null", NullToken)
  ELSE [ok |-> FALSE, token |-> NullToken, len |-> 0, seen |-> 1,
        err |-> scanError(text, 1, "looking for beginning of value")]

\* Mutant of Drop: the text of a scalar stays in the buffer.
DropNothing(text, n) == text

\* The buffer after the n characters of a token have been read.
Drop(text, n) == SubSeq(text, n + 1, Len(text))

\* Token with dec.scanp at dec.off and the unread text skipped characters
\* further, after the white space that peek has passed.
RECURSIVE nextToken(_, _)
nextToken(dec, skipped) ==
  LET TokenResult(kind, token, d, e) ==
        [kind |-> kind, token |-> token, dec |-> d, err |-> e]
      \* peek looks at the next character, or finds the end of the input.
      Peeked(d) ==
        IF d.buf = <<>> THEN TokenResult("eof", NullToken, d, "EOF")
        ELSE
          LET c == Head(d.buf)
              ts == d.tokenState
              rest == Tail(d.buf)
              \* dec.scanp = i
              at == [d EXCEPT !.off = @ + skipped]
              \* dec.tokenError(c)
              context ==
                CASE tokenValueAllowed(ts) -> " looking for beginning of value"
                  [] ts = "tokenArrayComma" -> " after array element"
                  [] ts = "tokenObjectKey" ->
                       " looking for beginning of object key string"
                  [] ts = "tokenObjectColon" -> " after object key"
                  [] ts = "tokenObjectComma" -> " after object key:value pair"
                  [] OTHER -> ""
              syntaxError ==
                TokenResult("error", NullToken, at,
                            "invalid character " \o quoteChar(c) \o context)
              \* dec.scanp++
              next == [at EXCEPT !.buf = rest, !.off = @ + 1]
              Pop == [next EXCEPT
                        !.tokenState = tokenValueEnd(d.tokenStack[Len(d.tokenStack)]),
                        !.tokenStack = SubSeq(d.tokenStack, 1, Len(d.tokenStack) - 1)]
              Push(state) == [next EXCEPT !.tokenState = state,
                                          !.tokenStack = Append(d.tokenStack, ts)]
              \* A quote where a key may stand starts a key, any other
              \* character a value.
              isKey == c = "\"" /\ ts \in {"tokenObjectStart", "tokenObjectKey"}
              \* Decode of the scalar r, after being the state after it and
              \* read the decoder after the refills of readValue: an error
              \* of readValue leaves the value where it is; a value that is
              \* read is taken from the buffer and ends in the token state
              \* (tokenValueEnd), whether unmarshal accepts it or not.
              Scalar(r, after, read) ==
                IF r.len = 0 THEN TokenResult("error", NullToken, read, r.err)
                ELSE TokenResult(IF r.ok THEN "token" ELSE "error", r.token,
                                 [read EXCEPT !.buf = Drop(@, r.len),
                                              !.off = @ + r.len,
                                              !.tokenState = after],
                                 r.err)
              \* The scalar at the head of the text is scanned once.
              Decode(after) ==
                CHOOSE t \in {Scalar(r, after, fill(at, at.off, at.off + r.seen - 1)) :
                                r \in {ScanScalar(d.buf)}} : TRUE
          IN
          IF isSpace(c) THEN nextToken([d EXCEPT !.buf = rest], skipped + 1)
          ELSE CASE c = "[" ->
                      IF ~tokenValueAllowed(ts) THEN syntaxError
                      ELSE TokenResult("token", Delim("["), Push("tokenArrayStart"), "")
                 [] c = "]" ->
                      IF ts \notin {"tokenArrayStart", "tokenArrayComma"}
                      THEN syntaxError
                      ELSE TokenResult("token", Delim("]"), Pop, "")
                 [] c = "{" ->
                      IF ~tokenValueAllowed(ts) THEN syntaxError
                      ELSE TokenResult("token", Delim("{"), Push("tokenObjectStart"), "")
                 [] c = "}" ->
                      IF ts \notin {"tokenObjectStart", "tokenObjectComma"}
                      THEN syntaxError
                      ELSE TokenResult("token", Delim("}"), Pop, "")
                 [] c = ":" ->
                      IF ts # "tokenObjectColon" THEN syntaxError
                      ELSE nextToken([next EXCEPT !.tokenState = "tokenObjectValue"], 0)
                 [] c = "," ->
                      IF ts = "tokenArrayComma"
                      THEN nextToken([next EXCEPT !.tokenState = "tokenArrayValue"], 0)
                      ELSE IF ts = "tokenObjectComma"
                      THEN nextToken([next EXCEPT !.tokenState = "tokenObjectKey"], 0)
                      ELSE syntaxError
                 [] OTHER ->
                      IF ~isKey /\ ~tokenValueAllowed(ts) THEN syntaxError
                      ELSE Decode(IF isKey THEN "tokenObjectColon"
                                  ELSE tokenValueEnd(ts))
  IN CHOOSE t \in {Peeked(d) : d \in {fill(dec, dec.off, dec.off + skipped)}} : TRUE

Token(dec) == nextToken(dec, 0)

\* reader.Len() after the reads of the decoder dec on the text input.
readerLen(input, dec) ==
  IF dec.read >= Len(input) THEN 0 ELSE Len(input) - dec.read

\* TokenParser.calculatePosition, inputLength being p.inputLength, which
\* Format sets to len(jsonStr) and nothing else reads, and len what
\* reader.Len() returns.
calculatePosition(inputLength, len) ==
  LET currentPos == inputLength - len IN
  IF currentPos < 0 THEN 0
  ELSE IF currentPos > inputLength THEN inputLength
  ELSE currentPos

(***************************************************************************)
(* The inputs of the model.  The first Format call of a behaviour reads an *)
(* input that is disclosed one token at a time: before each decoder.Token  *)
(* call the next piece of the input (a separator and the text of one       *)
(* token) is chosen among the pieces the decoder accepts, or a piece it    *)
(* rejects, or none (the end of the input).  A later call formats a text   *)
(* that is known in full: the same input again, or the output of the first *)
(* call.                                                                   *)
(***************************************************************************)
Configs ==
  {DefaultConfig, Config(2, FALSE, 0), Config(4, FALSE, 1), Config(2, TRUE, 2),
   Config(4, FALSE, 2)}

\* The object keys of the inputs.
KeyValues == {<<"a">>}

\* The scalar values of the inputs; one input holds one of them, as often as
\* it likes.
ScalarChoices ==
  {StringToken(<<"{", "\"">>), NumberToken(Float(10)), BoolToken(TRUE),
   BoolToken(FALSE), NullToken}

Delims == {Delim(c) : c \in {"{", "}", "[", "]"}}

\* The tokens an input may hold after what the decoder has read of it.
TokenChoices(dec, value) ==
  IF dec.tokenState \in {"tokenObjectStart", "tokenObjectComma"}
  THEN Delims \cup {StringToken(k) : k \in KeyValues}
  ELSE Delims \cup {value}

\* The text of a token in a compact JSON document.
Lexeme(token) ==
  CASE token.kind = "delim" -> token.s
    [] token.kind = "string" -> MarshalString(token.s)
    [] token.kind = "number" -> MarshalNumber(token.n)
    [] token.kind = "bool" -> IF token.b THEN <<"t", "r", "u", "e">>
                              ELSE <<"f", "a", "l", "s", "e">>
    [] OTHER -> <<"n", "u", "l", "l">>

\* What a JSON text holds between the last of the tokens read and the next
\* one: a colon, a comma, or white space between two numbers outside every
\* container, which would read as one number without it.
Separator(dec, tokens, token) ==
  IF dec.tokenState = "tokenObjectColon" THEN <<":">>
  ELSE IF dec.tokenState \in {"tokenArrayComma", "tokenObjectComma"}
          /\ token \notin {Delim("}"), Delim("]")}
  THEN <<",">>
  ELSE IF /\ dec.tokenState = "tokenTopValue"
          /\ tokens # <<>>
          /\ tokens[Len(tokens)].kind = "number"
          /\ token.kind = "number"
  THEN <<" ">>
  ELSE <<>>

BadPiece == <<"?">>

\* The pieces that may follow the tokens the decoder has read so far, among
\* those that hold a token of the set wanted: the decoder reads the token
\* from the piece.
Pieces(dec, tokens, value, wanted) ==
  {piece \in {Separator(dec, tokens, t) \o Lexeme(t) :
                t \in TokenChoices(dec, value) \cap wanted} :
     Token([dec EXCEPT !.buf = piece]).kind = "token"}
    \cup {BadPiece}

(***************************************************************************)
(* Formatter.Format.                                                       *)
(***************************************************************************)
VARIABLES
  config,      \* Formatter.config
  scalar,      \* the scalar value the input of the first call holds
  jsonStr,     \* the argument of the current Format call, as far as disclosed
  decoder,     \* the json.Decoder of the call
  parser,      \* the TokenParser of the call
  tokenCount,  \* tokenCount of the call
  pc,          \* "idle": no call yet; "loop": in the token loop; "done": returned
  result,      \* the result the call returned
  err,         \* the error the call returned
  stream,      \* history: the tokens the decoder delivered in this call
  call,        \* "first"; "output": on the first output; "again", "third": on
               \* the first input, as the second call or after an "output" call;
               \* "deep": on a deeply nested document; "long": a first call
               \* on a long input, taken up near the token limit
  prev,        \* history: input, tokens and outcome of the first call
  heap,        \* the Config instances allocated, by address
  refs,        \* history: the calls that returned a *Config, with the address
  calls        \* the Format calls that run at the same time, by caller

vars == <<config, scalar, jsonStr, decoder, parser, tokenCount, pc, result, err,
          stream, call, prev, heap, refs, calls>>

Outcome(text, e) == [result |-> text, err |-> e]

\* Mutant of tooManyTokens: the limit compared one token early.
tooManyTokensEarly(count) == count >= MaxTokenCount

\* if tokenCount > 10000
tooManyTokens(count) == count > MaxTokenCount

\* Mutant of ReturnError: the text built so far is returned with the error.
ReturnPartial(p, e) == Outcome(p.builder, e)

\* return "", err
ReturnError(p, e) == Outcome(<<>>, e)

\* Mutant of recovered: a panic value that is neither an error nor a string
\* is dropped.
recoveredTyped(v) ==
  CASE v.kind = "error" ->
         Outcome(<<>>, WrapFormatError("panic during formatting", <<v.msg>>))
    [] v.kind = "string" ->
         Outcome(<<>>, NewFormatError("panic during formatting: " \o v.msg))
    [] OTHER -> Outcome(<<>>, NoError)

\* The deferred function of Format on the recovered panic value v.
recovered(v) ==
  CASE v.kind = "error" ->
         Outcome(<<>>, WrapFormatError("panic during formatting", <<v.msg>>))
    [] v.kind = "string" ->
         Outcome(<<>>, NewFormatError("panic during formatting: " \o v.msg))
    [] OTHER -> Outcome(<<>>, NewFormatError("unexpected panic during formatting"))

\* What Format returns when processToken has ended with e on the parser p:
\* the error, or what the deferred function makes of a panic.
Failed(p, e) ==
  IF IsPanic(e) THEN recovered([kind |-> e[2], msg |-> e[3]]) ELSE ReturnError(p, e)

\* Mutant of finish: the depth is not checked after the loop.
finishUnchecked(p, count) ==
  IF count = 0
  THEN Outcome(<<>>, NewFormatError("input contains no valid JSON tokens"))
  ELSE Outcome(p.builder, NoError)

\* Mutant of noTokens: an input without tokens is not told apart.
noTokensIgnored(count) == FALSE

\* if tokenCount == 0
noTokens(count) == count = 0

\* The statements of Format after the token loop.
finish(p, count) ==
  IF p.depth # 0
  THEN ReturnError(p, NewFormatError("malformed JSON: unclosed objects or arrays"))
  ELSE IF noTokens(count)
  THEN ReturnError(p, NewFormatError("input contains no valid JSON tokens"))
  ELSE Outcome(p.builder, NoError)

\* Mutant of createParser: the parser of the earlier call is kept, with an
\* empty builder.
keepParser(old, cfg) == [old EXCEPT !.builder = <<>>, !.config = cfg]

\* parser := &TokenParser{...}: the call's parser, whatever an earlier call left.
createParser(old, cfg) == NewParser(cfg)

NoCall == [jsonStr |-> <<>>, stream |-> <<>>, result |-> <<>>, err |-> NoError]

Init ==
  /\ config \in Configs
  /\ scalar \in ScalarChoices \ {BoolToken(FALSE)}
  /\ jsonStr = <<>>
  /\ decoder = NewDecoder(<<>>)
  /\ parser = NewParser(config)
  /\ tokenCount = 0
  /\ pc = "idle"
  /\ result = <<>>
  /\ err = NoError
  /\ stream = <<>>
  /\ call = "first"
  /\ prev = NoCall
  /\ heap = <<>>
  /\ refs = <<>>
  /\ calls = <<>>

Return(o) ==
  /\ pc' = "done"
  /\ result' = o.result
  /\ err' = o.err

\* The start of a Format call on the text input, up to the token loop.
Begin(input) ==
  /\ jsonStr' = input
  /\ stream' = <<>>
  /\ tokenCount' = 0
  /\ decoder' = NewDecoder(input)
  /\ IF input = <<>>
     THEN /\ Return(ReturnError(parser, NewFormatError("input JSON string is empty")))
          /\ UNCHANGED parser
     ELSE /\ parser' = createParser(parser, config)
          /\ pc' = "loop"
          /\ UNCHANGED <<result, err>>

\* The first call: on the empty string, or on an input that starts with the
\* piece chosen here.
FormatFirst ==
  /\ pc = "idle"
  /\ \E input \in {<<>>, <<" ">>}
                    \cup Pieces(NewDecoder(<<>>), <<>>, scalar, Delims \cup {scalar}) :
       Begin(input)
  /\ UNCHANGED <<heap, refs, calls, config, scalar, call, prev>>

\* A second call of the same Formatter on the input of the first call.
FormatAgain ==
  /\ pc = "done"
  /\ call \in {"first", "output"}
  /\ call' = IF call = "first" THEN "again" ELSE "third"
  /\ prev' = IF call = "first"
             THEN [jsonStr |-> jsonStr, stream |-> stream, result |-> result,
                   err |-> err]
             ELSE prev
  /\ Begin(prev'.jsonStr)
  /\ UNCHANGED <<heap, refs, calls, config, scalar>>

\* A second call of the same Formatter on the output of the first call.
FormatOutput ==
  /\ pc = "done"
  /\ call = "first"
  /\ err = NoError
  /\ call' = "output"
  /\ prev' = [jsonStr |-> jsonStr, stream |-> stream, result |-> result,
              err |-> err]
  /\ Begin(result)
  /\ UNCHANGED <<heap, refs, calls, config, scalar>>

\* The pieces of input disclosed before the next decoder.Token call, among
\* those that hold a token of the set tokens: on the first call one more
\* piece, or the bad piece, or none; on a later call none, the text being
\* known in full.
NextPieces(tokens) ==
  IF /\ decoder.buf = <<>>
     /\ \/ call = "first" /\ tokenCount < MaxTokens
        \/ call = "long"
  THEN Pieces(decoder, stream, scalar, tokens) \cup {<<>>}
  ELSE {<<>>}

\* One iteration of the loop in which decoder.Token returns io.EOF: the loop
\* ends and Format returns.
DecoderEOF ==
  /\ pc = "loop"
  /\ Token(decoder).kind = "eof"
  /\ decoder' = Token(decoder).dec
  /\ Return(finish(parser, tokenCount))
  /\ UNCHANGED <<heap, refs, calls, config, scalar, jsonStr, parser, tokenCount, stream, call, prev>>

\* One iteration in which decoder.Token returns another error.
DecoderError ==
  /\ pc = "loop"
  /\ \E piece \in NextPieces({}) :
       LET r == Token([decoder EXCEPT !.buf = @ \o piece]) IN
       /\ r.kind = "error"
       /\ jsonStr' = jsonStr \o piece
       /\ decoder' = r.dec
       /\ Return(ReturnError(parser,
            WrapFormatErrorWithPosition(
              "invalid JSON input",
              calculatePosition(Len(jsonStr'), readerLen(jsonStr', r.dec)),
              <<r.err>>)))
  /\ UNCHANGED <<heap, refs, calls, config, scalar, parser, tokenCount, stream, call, prev>>

\* One iteration in which decoder.Token returns a token of the set tokens:
\* the token is counted and processToken handles it.
Iterate(tokens) ==
  LET \* err = parser.processToken(token); if err != nil { return "", err }
      Processed(h) ==
        /\ parser' = h.p
        /\ IF h.err # NoError
           THEN Return(Failed(h.p, h.err))
           ELSE UNCHANGED <<pc, result, err>>
      \* token, err := decoder.Token(), r being what it returns
      Decoded(piece, r) ==
        /\ r.kind = "token"
        /\ r.token \in tokens
        /\ jsonStr' = jsonStr \o piece
        /\ decoder' = r.dec
        /\ stream' = Append(stream, r.token)
        /\ tokenCount' = tokenCount + 1
        /\ IF tooManyTokens(tokenCount')
           THEN /\ Return(ReturnError(parser, NewFormatError(
                     "JSON structure too complex or malformed (too many tokens)")))
                /\ UNCHANGED parser
           ELSE Processed(processToken(parser, r.token))
  IN /\ \E piece \in NextPieces(tokens) :
          Decoded(piece, Token([decoder EXCEPT !.buf = @ \o piece]))
     /\ UNCHANGED <<heap, refs, calls, config, scalar, call, prev>>

StartObject ==
  /\ pc = "loop"
  /\ Iterate({Delim("{")})

EndObject ==
  /\ pc = "loop"
  /\ Iterate({Delim("}")})

StartArray ==
  /\ pc = "loop"
  /\ Iterate({Delim("[")})

EndArray ==
  /\ pc = "loop"
  /\ Iterate({Delim("]")})

Scalars == ScalarChoices \cup {StringToken(k) : k \in KeyValues}

HandleString ==
  /\ pc = "loop"
  /\ Iterate({t \in Scalars : t.kind = "string"})

HandleNumber ==
  /\ pc = "loop"
  /\ Iterate({t \in Scalars : t.kind = "number"})

HandleBoolean ==
  /\ pc = "loop"
  /\ Iterate({t \in Scalars : t.kind = "bool"})

HandleNull ==
  /\ pc = "loop"
  /\ Iterate({NullToken})

Next ==
  \/ FormatFirst
  \/ DecoderEOF
  \/ DecoderError
  \/ StartObject
  \/ EndObject
  \/ StartArray
  \/ EndArray
  \/ HandleString
  \/ HandleNumber
  \/ HandleBoolean
  \/ HandleNull

Spec == Init /\ [][Next]_vars

\* The Formatter is used for a second call: Reuse is Spec with the two
\* second calls, narrowed to two configurations and one scalar value of each
\* kind, the boolean and null under the default configuration only.
InitReuse ==
  /\ Init
  /\ config \in {DefaultConfig, Config(2, FALSE, 0)}
  /\ scalar \in {StringToken(<<"{", "\"">>), NumberToken(Float(10)),
                 BoolToken(TRUE), NullToken}
  /\ scalar.kind \in {"bool", "null"} => config = DefaultConfig

NextReuse ==
  \/ Next
  \/ FormatAgain
  \/ FormatOutput

SpecReuse == InitReuse /\ [][NextReuse]_vars

(***************************************************************************)
(* Deeply nested inputs: documents of MaxDepth - 1, MaxDepth and           *)
(* MaxDepth + 1 containers around one scalar, the containers being arrays, *)
(* objects, or objects and arrays in turn, and one text the decoder        *)
(* rejects.                                                                *)
(***************************************************************************)
DeepKinds == {"array", "object", "mixed"}

\* Whether the container at the given level (the outermost is 1) is an array.
DeepIsArray(kind, level) ==
  kind = "array" \/ (kind = "mixed" /\ level % 2 = 0)

\* The text that opens the containers of the levels from level to n.
RECURSIVE DeepOpens(_, _, _)
DeepOpens(kind, level, n) ==
  IF level > n THEN <<>>
  ELSE (IF DeepIsArray(kind, level) THEN <<"[">>
        ELSE <<"{", "\"", "a", "\"", ":">>) \o DeepOpens(kind, level + 1, n)

\* The text that closes the containers of the levels from n down to level.
RECURSIVE DeepCloses(_, _, _)
DeepCloses(kind, level, n) ==
  IF level > n THEN <<>>
  ELSE DeepCloses(kind, level + 1, n)
         \o (IF DeepIsArray(kind, level) THEN <<"]">> ELSE <<"}">>)

DeepDoc(kind, n, value) ==
  DeepOpens(kind, 1, n) \o Lexeme(value) \o DeepCloses(kind, 1, n)

DeepDocs(value) ==
  {DeepDoc(kind, n, value) :
     kind \in DeepKinds, n \in {MaxDepth - 1, MaxDepth, MaxDepth + 1}}
    \cup {DeepOpens(kind, 1, MaxDepth) \o BadPiece : kind \in DeepKinds}

\* A call on a deeply nested document.
FormatDeep ==
  /\ pc = "idle"
  /\ call' = "deep"
  /\ \E input \in DeepDocs(scalar) : Begin(input)
  /\ UNCHANGED <<heap, refs, calls, config, scalar, prev>>

InitDeep ==
  /\ Init
  /\ config \in {DefaultConfig, Config(2, FALSE, 0)}
  /\ scalar \in {NumberToken(Float(10)), BoolToken(TRUE), NullToken}

NextDeep ==
  \/ FormatDeep
  \/ DecoderEOF
  \/ DecoderError
  \/ StartObject
  \/ EndObject
  \/ StartArray
  \/ EndArray
  \/ HandleString
  \/ HandleNumber
  \/ HandleBoolean
  \/ HandleNull

SpecDeep == InitDeep /\ [][NextDeep]_vars

(***************************************************************************)
(* Long inputs.  A call on an array of many scalars is taken up after its  *)
(* first MaxTokenCount - MaxLongSteps tokens: the state of the loop at     *)
(* that point is computed by running the iterations of the loop on the     *)
(* opening bracket and the scalars; from there the input goes on as the    *)
(* input of a first call does, one piece at a time, until Format returns.  *)
(***************************************************************************)
\* The tokens a long call has still to read before the token limit.
MaxLongSteps == 4

\* The state of the loop at the start of a call with configuration cfg.
LoopStart(cfg) ==
  [decoder |-> NewDecoder(<<>>), parser |-> NewParser(cfg), jsonStr |-> <<>>,
   stream |-> <<>>, tokenCount |-> 0]

\* One iteration of the loop on an input that goes on with token, which the
\* decoder and the engine accept.
LoopStep(st, token) ==
  LET piece == Separator(st.decoder, st.stream, token) \o Lexeme(token)
      r == Token([st.decoder EXCEPT !.buf = piece])
  IN [decoder |-> r.dec,
      parser |-> processToken(st.parser, r.token).p,
      jsonStr |-> st.jsonStr \o piece,
      stream |-> Append(st.stream, r.token),
      tokenCount |-> st.tokenCount + 1]

\* The long input is an array of empty arrays: the token that follows
\* count tokens of it.
LongToken(count) ==
  IF count % 2 = 0 THEN Delim("]") ELSE Delim("[")

\* n iterations on the long input: the first half of them, then the others.
RECURSIVE LoopSteps(_, _)
LoopSteps(st, n) ==
  IF n <= 0 THEN st
  ELSE IF n = 1 THEN LoopStep(st, LongToken(st.tokenCount))
  ELSE LET half == LoopSteps(st, n \div 2) IN
       IF half.tokenCount = st.tokenCount + (n \div 2)
       THEN LoopSteps(half, n - (n \div 2))
       ELSE half

\* The loop after all but MaxLongSteps of the tokens the guard allows.
LongStart(cfg) ==
  LoopSteps(LoopStep(LoopStart(cfg), Delim("[")),
            MaxTokenCount - MaxLongSteps - 1)

InitLong ==
  /\ \E cfg \in {Config(4, FALSE, 1), Config(2, TRUE, 1)} :
       \E st \in {LongStart(cfg)} :
         /\ config = cfg
         /\ jsonStr = st.jsonStr
         /\ decoder = st.decoder
         /\ parser = st.parser
         /\ tokenCount = st.tokenCount
         /\ stream = st.stream
  /\ scalar \in {NumberToken(Float(10)), BoolToken(TRUE), NullToken}
  /\ pc = "loop"
  /\ result = <<>>
  /\ err = NoError
  /\ call = "long"
  /\ prev = NoCall
  /\ heap = <<>>
  /\ refs = <<>>
  /\ calls = <<>>

NextLong ==
  \/ DecoderEOF
  \/ DecoderError
  \/ StartObject
  \/ EndObject
  \/ StartArray
  \/ EndArray
  \/ HandleString
  \/ HandleNumber
  \/ HandleBoolean
  \/ HandleNull

SpecLong == InitLong /\ [][NextLong]_vars

(***************************************************************************)
(* Format as a function of the tokens its decoder delivers before io.EOF:  *)
(* the token loop of Format run to its end on tokens.                      *)
(***************************************************************************)
RECURSIVE RunTokens(_, _, _)
RunTokens(p, tokens, i) ==
  IF i > Len(tokens) THEN Ok(p)
  ELSE IF tooManyTokens(i)
  THEN Fail(p, "JSON structure too complex or malformed (too many tokens)")
  ELSE LET h == processToken(p, tokens[i]) IN
       IF h.err # NoError THEN h ELSE RunTokens(h.p, tokens, i + 1)

FormatTokens(tokens, cfg) ==
  LET r == RunTokens(NewParser(cfg), tokens, 1) IN
  IF r.err # NoError THEN Failed(r.p, r.err) ELSE finish(r.p, Len(tokens))

(***************************************************************************)
(* Reading a token stream by the JSON grammar: the place of each token.    *)
(* place is "top" (a value outside every container), "element" (of an      *)
(* array), "key" or "value" (of an object member) or "close"; first tells  *)
(* whether the token starts the first child of its container; depth is the *)
(* number of containers open before the token.                             *)
(***************************************************************************)
IsOpen(token) == token \in {Delim("{"), Delim("[")}

IsClose(token) == token \in {Delim("}"), Delim("]")}

RECURSIVE Places(_, _, _, _, _)
Places(tokens, i, stack, afterKey, acc) ==
  IF i > Len(tokens) THEN acc
  ELSE
    LET t == tokens[i]
        n == Len(stack)
        inner == IF IsOpen(t) THEN <<[arr |-> t = Delim("["), count |-> 0]>> ELSE <<>>
        counted == IF n = 0 THEN stack
                   ELSE [stack EXCEPT ![n].count = @ + 1]
        place == IF IsClose(t) THEN "close"
                 ELSE IF afterKey THEN "value"
                 ELSE IF n = 0 THEN "top"
                 ELSE IF stack[n].arr THEN "element"
                 ELSE "key"
        note == [place |-> place, depth |-> n,
                 first |-> IF n = 0 THEN FALSE ELSE stack[n].count = 0]
    IN CASE place = "close" ->
              Places(tokens, i + 1, SubSeq(stack, 1, n - 1), FALSE, Append(acc, note))
         [] place = "value" ->
              Places(tokens, i + 1, stack \o inner, FALSE, Append(acc, note))
         [] place = "key" ->
              Places(tokens, i + 1, counted, TRUE, Append(acc, note))
         [] OTHER ->
              Places(tokens, i + 1, counted \o inner, FALSE, Append(acc, note))

PlacesOf(tokens) == Places(tokens, 1, <<>>, FALSE, <<>>)

\* The number of values outside every container that tokens starts.
TopValues(tokens) ==
  Cardinality({i \in 1..Len(tokens) : PlacesOf(tokens)[i].place = "top"})

(***************************************************************************)
(* Reading an output text: its items (delimiters, commas, colons and       *)
(* scalars), each with the white space written before it.                  *)
(***************************************************************************)
RECURSIVE SkipSpace(_, _)
SkipSpace(text, i) ==
  IF i <= Len(text) /\ isSpace(text[i]) THEN SkipSpace(text, i + 1) ELSE i

Item(kind, token, pre) == [kind |-> kind, token |-> token, pre |-> pre]

RECURSIVE ItemsFrom(_, _, _)
ItemsFrom(text, i, acc) ==
  LET j == SkipSpace(text, i)
      pre == SubSeq(text, i, j - 1)
  IN IF j > Len(text)
     THEN IF pre = <<>> THEN acc ELSE Append(acc, Item("space", NullToken, pre))
     ELSE IF text[j] \in {"{", "}", "[", "]", ",", ":"}
     THEN ItemsFrom(text, j + 1, Append(acc, Item(text[j], NullToken, pre)))
     ELSE LET Scalar(r) ==
                IF r.ok
                THEN ItemsFrom(text, j + r.len, Append(acc, Item("scalar", r.token, pre)))
                ELSE Append(acc, Item("bad", NullToken, pre))
          IN Scalar(ScanScalar(SubSeq(text, j, Len(text))))

Items(text) == ItemsFrom(text, 1, <<>>)

\* The token an item stands for.
ItemToken(item) == IF item.kind = "scalar" THEN item.token ELSE Delim(item.kind)

\* The items that stand for tokens, each with the number of commas written
\* since the item before it and whether a colon follows it directly.
RECURSIVE Lexemes(_, _, _, _)
Lexemes(items, i, commas, acc) ==
  IF i > Len(items) THEN [lexemes |-> acc, trailing |-> commas]
  ELSE LET it == items[i] IN
       IF it.kind = "," THEN Lexemes(items, i + 1, commas + 1, acc)
       ELSE IF it.kind = ":" THEN Lexemes(items, i + 1, commas, acc)
       ELSE Lexemes(items, i + 1, 0,
                    Append(acc, [token |-> ItemToken(it), pre |-> it.pre,
                                 commas |-> commas,
                                 colon |-> i < Len(items) /\ items[i + 1].kind = ":"]))

LexemesOf(text) == Lexemes(Items(text), 1, 0, <<>>)

HasNewline(pre) == \E k \in 1..Len(pre) : pre[k] = "\n"

\* The delimiters of an output nest: every closing delimiter closes the
\* container opened last, and none is left open.
RECURSIVE Nests(_, _, _)
Nests(items, i, open) ==
  IF i > Len(items) THEN open = <<>>
  ELSE LET k == items[i].kind IN
       IF k \in {"{", "["} THEN Nests(items, i + 1, Append(open, k))
       ELSE IF k \in {"}", "]"}
       THEN /\ open # <<>>
            /\ open[Len(open)] = (IF k = "}" THEN "{" ELSE "[")
            /\ Nests(items, i + 1, SubSeq(open, 1, Len(open) - 1))
       ELSE Nests(items, i + 1, open)

CountKind(items, kind) == Cardinality({i \in 1..Len(items) : items[i].kind = kind})

\* The containers of an output, each with the index of its opening delimiter
\* among the items, its inner depth, whether a new line is written between
\* its delimiters and whether one is written right before its closing one.
RECURSIVE Containers(_, _, _, _)
Containers(items, i, open, acc) ==
  IF i > Len(items) THEN acc
  ELSE
    LET it == items[i]
        nl == HasNewline(it.pre)
        seen == [k \in 1..Len(open) |-> [open[k] EXCEPT !.newline = @ \/ nl]]
    IN IF it.kind \in {"{", "["}
       THEN Containers(items, i + 1,
                       Append(seen, [at |-> i, depth |-> Len(open) + 1,
                                     newline |-> FALSE]), acc)
       ELSE IF it.kind \in {"}", "]"} /\ open # <<>>
       THEN Containers(items, i + 1, SubSeq(seen, 1, Len(seen) - 1),
                       acc \cup {[at |-> seen[Len(seen)].at,
                                  depth |-> seen[Len(seen)].depth,
                                  newline |-> seen[Len(seen)].newline,
                                  closeOnNewLine |-> nl]})
       ELSE Containers(items, i + 1, seen, acc)

ContainersOf(text) == Containers(Items(text), 1, <<>>, {})

\* The depths at which the items that start a line stand: the number of
\* containers open before the item.
RECURSIVE NewlineDepths(_, _, _, _)
NewlineDepths(items, i, depth, acc) ==
  IF i > Len(items) THEN acc
  ELSE LET k == items[i].kind IN
       NewlineDepths(items, i + 1,
                     IF k \in {"{", "["} THEN depth + 1
                     ELSE IF k \in {"}", "]"} THEN depth - 1
                     ELSE depth,
                     IF HasNewline(items[i].pre) THEN acc \cup {depth} ELSE acc)

\* The containers of an output that are rendered compactly, named by the
\* ordinal of the token that opens them.
CompactContainers(text) ==
  LET items == Items(text)
      Ordinal(at) == Cardinality({k \in 1..at : items[k].kind \notin {",", ":"}})
  IN {Ordinal(c.at) : c \in {d \in Containers(items, 1, <<>>, {}) : ~d.newline}}

(***************************************************************************)
(* The claims.                                                             *)
(***************************************************************************)
Returned == pc = "done"

Succeeded == pc = "done" /\ err = NoError

\* The decoder found a syntax error in the input.
SyntaxError == pc = "done" /\ err # NoError /\ err[1] = "invalid JSON input"

\* The engine rejected a token the decoder delivered.
Rejected ==
  /\ pc = "done"
  /\ err # NoError
  /\ err[1] \notin {"input JSON string is empty", "invalid JSON input",
                    "malformed JSON: unclosed objects or arrays",
                    "input contains no valid JSON tokens"}

\* What was read of the input is the start of one JSON document, or all of it.
StartsOneDocument == ~SyntaxError /\ TopValues(stream) <= 1

IsOneDocument ==
  /\ StartsOneDocument
  /\ TopValues(stream) = 1
  /\ decoder.buf = <<>>
  /\ decoder.tokenStack = <<>>

\* C1: Format returns a formatted result and a nil error for every well-formed
\* single JSON document within the caps, also when a member whose value is an
\* object is followed by another member: no token of such a document is
\* rejected, and at its end the result is returned.
C1_WellFormedDocumentFormats ==
  (Returned /\ call = "first") =>
     /\ StartsOneDocument => ~Rejected
     /\ (IsOneDocument /\ ~Rejected) => (err = NoError /\ result # <<>>)

\* C2: Format returns a non-empty result with a nil error, or the empty string
\* with an error; the text built before a failure is not returned.
C2_ResultOrError ==
  Returned => \/ result # <<>> /\ err = NoError
              \/ result = <<>> /\ err # NoError

C2_Witness == Rejected /\ parser.builder # <<>> /\ result = <<>>

\* C3: in the output of a successful Format exactly one comma stands before
\* every child of a container but its first, and no comma anywhere else.
C3_OneCommaBetweenSiblings ==
  Succeeded =>
    LET out == LexemesOf(result)
        places == PlacesOf(stream)
    IN /\ Len(out.lexemes) = Len(stream)
       /\ out.trailing = 0
       /\ \A i \in 1..Len(stream) :
            out.lexemes[i].commas =
              IF places[i].place \in {"element", "key"} /\ ~places[i].first
              THEN 1 ELSE 0

\* C4: idempotence: Format applied to the output of a successful Format, with
\* the same configuration, succeeds and returns the same text.
C4_Idempotent ==
  (Returned /\ call = "output") => (err = NoError /\ result = prev.result)

\* C5: determinism: Format on the same input with the same configuration
\* returns the same outcome again, whatever the Formatter did in between.
C5_Deterministic ==
  (Returned /\ call \in {"again", "third"}) =>
     (result = prev.result /\ err = prev.err)

C5_Witness ==
  /\ Returned
  /\ call = "third"
  /\ err = NoError
  /\ Len(stream) >= 5

ScalarPair(token, key) == [token |-> token, key |-> key]

IsScalarPair(pair) == pair.token.kind # "delim"

\* The scalars of the input of the call, each with whether it is a key.
ScalarsRead ==
  LET places == PlacesOf(stream) IN
  SelectSeq([i \in 1..Len(stream) |->
               ScalarPair(stream[i], places[i].place = "key")], IsScalarPair)

\* The scalars of a text, each with whether it is written as a key.
ScalarsWritten(text) ==
  LET out == LexemesOf(text).lexemes IN
  SelectSeq([i \in 1..Len(out) |-> ScalarPair(out[i].token, out[i].colon)],
            IsScalarPair)

\* C6: scalar fidelity: the output of a successful Format holds the scalars of
\* the input, each once and in the order of the input, the keys written as
\* keys (a colon follows) and the values as values.
C6_ScalarsKept == Succeeded => ScalarsWritten(result) = ScalarsRead

\* C7: balance: in the output of a successful Format the delimiters nest (each
\* closing one matches the container opened last), there are as many { as }
\* and as many [ as ], and the depth of the engine is 0.
C7_Balanced ==
  Succeeded =>
    LET items == Items(result) IN
    /\ Nests(items, 1, <<>>)
    /\ CountKind(items, "{") = CountKind(items, "}")
    /\ CountKind(items, "[") = CountKind(items, "]")
    /\ parser.depth = 0

C7_Witness ==
  /\ Succeeded
  /\ CountKind(Items(result), "{") >= 1
  /\ CountKind(Items(result), "[") >= 2

\* The largest compactDepth the depth-threshold law is checked for.
MaxCompactDepth == 4

\* The containers Format renders compactly for the input of the call when
\* compactDepth is c and the other options are those of config.
CompactWith(c) ==
  CompactContainers(FormatTokens(stream, [config EXCEPT !.CompactDepth = c]).result)

\* CompactWith(c), CompactWith(c + 1), ..., CompactWith(MaxCompactDepth).
RECURSIVE CompactFrom(_)
CompactFrom(c) ==
  IF c > MaxCompactDepth THEN <<>> ELSE <<CompactWith(c)>> \o CompactFrom(c + 1)

\* C8 as stated: for any compactDepth values c1 < c2 the containers rendered
\* compactly with c2 are among those rendered compactly with c1.
C8_ThresholdLawFromZero ==
  (Succeeded /\ call = "first") =>
    LET compact == CompactFrom(0) IN
    \A c1, c2 \in 0..MaxCompactDepth :
      c1 < c2 => compact[c2 + 1] \subseteq compact[c1 + 1]

\* C8 as amended: the law holds for the compactDepth values 0 < c1 < c2 (with
\* compactDepth 0 no container is compact), and the result of the call is the
\* one the law speaks of.
C8_ThresholdLaw ==
  (Succeeded /\ call = "first") =>
    /\ FormatTokens(stream, config) = Outcome(result, err)
    /\ CompactWith(0) = {}
    /\ LET compact == CompactFrom(1) IN
       \A c1, c2 \in 1..MaxCompactDepth :
         c1 < c2 => compact[c2] \subseteq compact[c1]

C8_Witness ==
  /\ Succeeded
  /\ call = "first"
  /\ CompactWith(2) # {}
  /\ CompactWith(2) # CompactWith(1)

\* C9: with compactDepth 0 every key, every scalar or object element of an
\* array and every closing delimiter starts a line of the output, and
\* [10,10,10] with two spaces gives the text of the example.
C9_NothingCompactAtZero ==
  (Succeeded /\ config.CompactDepth = 0) =>
    LET out == LexemesOf(result).lexemes
        places == PlacesOf(stream)
    IN /\ Len(out) = Len(stream)
       /\ \A i \in 1..Len(stream) :
            ( \/ places[i].place \in {"key", "close"}
              \/ places[i].place = "element" /\ stream[i] # Delim("[") )
            => HasNewline(out[i].pre)
       /\ ( /\ config = Config(2, FALSE, 0)
            /\ stream = <<Delim("["), NumberToken(Float(10)), NumberToken(Float(10)),
                          NumberToken(Float(10)), Delim("]")>> )
          => result = <<"[", "\n", " ", " ", "1", "0", ",", "\n", " ", " ",
                        "1", "0", ",", "\n", " ", " ", "1", "0", "\n", "]">>

\* C10: with compactDepth > 0 no new line is written at a depth >=
\* compactDepth, so a container whose inner depth is >= compactDepth has no
\* new line between its delimiters, and the closing delimiter of a container
\* whose inner depth is < compactDepth starts a line.
C10_CompactByAbsoluteDepth ==
  config.CompactDepth > 0 =>
    LET items == Items(parser.builder) IN
    /\ \A d \in NewlineDepths(items, 1, 0, {}) : d < config.CompactDepth
    /\ \A c \in Containers(items, 1, <<>>, {}) :
         /\ c.depth >= config.CompactDepth => ~c.newline
         /\ c.depth < config.CompactDepth => c.closeOnNewLine

C10_Witness ==
  /\ Succeeded
  /\ config.CompactDepth > 0
  /\ Len(stream) >= 6
  /\ \E c, d \in ContainersOf(result) :
       /\ c.depth >= config.CompactDepth
       /\ d.depth < config.CompactDepth

\* The kinds of the containers open before each token of a stream, the
\* outermost first: TRUE for an array, FALSE for an object.
RECURSIVE Stacks(_, _, _, _)
Stacks(tokens, i, stack, acc) ==
  IF i > Len(tokens) THEN acc
  ELSE LET t == tokens[i] IN
       Stacks(tokens, i + 1,
              IF IsOpen(t) THEN Append(stack, t = Delim("["))
              ELSE IF IsClose(t) /\ stack # <<>> THEN SubSeq(stack, 1, Len(stack) - 1)
              ELSE stack,
              Append(acc, stack))

StacksOf(tokens) == Stacks(tokens, 1, <<>>, <<>>)

\* C11: with the default configuration an object that is an element of an
\* array is written on one line whatever its depth, and an object that has
\* only objects around it is written on several lines whatever its depth.
C11_ObjectsInArraysOnOneLine ==
  (Succeeded /\ config = DefaultConfig) =>
    LET compact == CompactContainers(result)
        stacks == StacksOf(stream)
    IN \A i \in 1..Len(stream) :
         (stream[i] = Delim("{") /\ stacks[i] # <<>>) =>
           /\ stacks[i][Len(stacks[i])] => i \in compact
           /\ (\A k \in 1..Len(stacks[i]) : ~stacks[i][k]) => i \notin compact

\* C12: with the default configuration an array that is the value of a key of
\* an object written on several lines starts a line of its own: after the
\* colon come one space, a new line and the indentation of the key.
C12_ArrayValueStartsLine ==
  (Succeeded /\ config = DefaultConfig) =>
    LET out == LexemesOf(result).lexemes
        places == PlacesOf(stream)
    IN /\ Len(out) = Len(stream)
       /\ \A i \in 1..Len(stream) :
            ( /\ stream[i] = Delim("[")
              /\ places[i].place = "value"
              /\ places[i].depth < config.CompactDepth )
            => out[i].pre = <<" ", "\n">>
                              \o Repeat(" ", places[i].depth * config.IndentSize).text

\* The indentation the engine writes at depth d under cfg.
Indentation(cfg, d) ==
  IF cfg.UseTab THEN Repeat("\t", d).text ELSE Repeat(" ", d * cfg.IndentSize).text

\* Every item of a text that starts a line stands right after a new line and
\* the indentation of its depth (the depth after the pop for a closing
\* delimiter), and every other item stands after nothing or one space.
RECURSIVE IndentsOk(_, _, _, _)
IndentsOk(items, cfg, i, depth) ==
  IF i > Len(items) THEN TRUE
  ELSE LET it == items[i]
           d == IF it.kind \in {"}", "]"} THEN depth - 1 ELSE depth
       IN /\ IF HasNewline(it.pre)
             THEN d >= 0 /\ it.pre = <<"\n">> \o Indentation(cfg, d)
             ELSE it.pre \in {<<>>, <<" ">>}
          /\ IndentsOk(items, cfg, i + 1,
                       IF it.kind \in {"{", "["} THEN depth + 1 ELSE d)

\* C13: indent-width law: every new line the engine writes is followed by
\* exactly depth * IndentSize spaces, or depth tabs when UseTab is set, depth
\* being the depth of the engine when it writes; no other indentation appears.
\* Checked on all the engine has written when Format returns, with or without
\* an error.
C13_IndentWidth ==
  Returned => IndentsOk(Items(parser.builder), config, 1, 0)

C13_Witness ==
  /\ Succeeded
  /\ config = Config(4, FALSE, 2)
  /\ \E i \in 1..Len(Items(result)) :
       Items(result)[i].pre = <<"\n", " ", " ", " ", " ">>

TooDeep == "JSON structure too deeply nested (max depth: 100)"

\* The number of containers open before token i of a stream.
OpenBefore(tokens, i) ==
  Cardinality({k \in 1..(i - 1) : IsOpen(tokens[k])})
    - Cardinality({k \in 1..(i - 1) : IsClose(tokens[k])})

\* The largest number of containers open at once in a stream.
MaxNesting(tokens) ==
  LET depths == {0} \cup {OpenBefore(tokens, i) + 1 :
                            i \in {k \in 1..Len(tokens) : IsOpen(tokens[k])}}
  IN CHOOSE d \in depths : \A e \in depths : e <= d

\* C14: depth guard: a well-formed document nested exactly MaxDepth deep is
\* formatted, a token that opens a container when MaxDepth containers are open
\* makes Format return an error at that token, and the guard rejects no other
\* token.  (Every token of a call is the last token of the stream in the
\* state its handler leaves.)
C14_DepthGuard ==
  LET last == Len(stream)
      atLimit == /\ last > 0
                 /\ IsOpen(stream[last])
                 /\ OpenBefore(stream, last) >= MaxDepth
      tooDeep == Returned /\ err # NoError /\ err[Len(err)] = TooDeep
      oneDocument ==
        /\ ~SyntaxError
        /\ decoder.buf = <<>>
        /\ decoder.tokenStack = <<>>
        /\ Cardinality({i \in 1..last : /\ ~IsClose(stream[i])
                                        /\ OpenBefore(stream, i) = 0}) = 1
  IN /\ parser.depth <= MaxDepth
     /\ atLimit => (tooDeep /\ result = <<>>)
     /\ tooDeep => (atLimit /\ OpenBefore(stream, last) = MaxDepth)
     /\ (Returned /\ call = "deep" /\ oneDocument /\ MaxNesting(stream) = MaxDepth)
          => (err = NoError /\ result # <<>>)

C14_Witness ==
  /\ Succeeded
  /\ call = "deep"
  /\ MaxNesting(stream) = MaxDepth
  /\ \E i \in 1..Len(stream) :
       stream[i] = Delim("{") /\ OpenBefore(stream, i) = MaxDepth - 1

TooManyTokens == "JSON structure too complex or malformed (too many tokens)"

\* C15 (states): Format has returned the token-count error exactly when
\* token MaxTokenCount + 1 has been read, with no output.
C15_GuardAtLimit ==
  /\ tokenCount <= MaxTokenCount + 1
  /\ tokenCount = MaxTokenCount + 1 =>
       (Returned /\ result = <<>> /\ err = NewFormatError(TooManyTokens))
  /\ (Returned /\ err # NoError /\ err[Len(err)] = TooManyTokens) =>
       tokenCount = MaxTokenCount + 1

\* C15 (steps): the iteration that reads token MaxTokenCount + 1 returns
\* without processing it: the engine is left as it was.
C15_GuardBeforeProcessing ==
  tokenCount' = MaxTokenCount + 1 => (parser' = parser /\ pc' = "done")

\* C15: token-count guard: Format returns an error as soon as token
\* MaxTokenCount + 1 is read, before the token is processed, and the guard
\* rejects no stream of MaxTokenCount tokens or fewer.
C15_TokenCountGuard == []C15_GuardAtLimit /\ [][C15_GuardBeforeProcessing]_vars

\* A document of exactly MaxTokenCount tokens has been formatted.
C15_AtLimitAccepted ==
  /\ Succeeded
  /\ call = "long"
  /\ tokenCount = MaxTokenCount

\* Token MaxTokenCount + 1 has been read and the call has returned the error.
C15_Witness ==
  /\ Returned
  /\ call = "long"
  /\ tokenCount = MaxTokenCount + 1
  /\ Len(stream) = MaxTokenCount + 1
  /\ err = NewFormatError(TooManyTokens)

EmptyInput == "input JSON string is empty"

NoTokens == "input contains no valid JSON tokens"

\* The text holds nothing but white space.
OnlySpace(text) == \A i \in 1..Len(text) : isSpace(text[i])

\* C16: Format returns an error and no output for the empty input string, and
\* for an input of white space only, which yields no token at all.
C16_NoTokenInput ==
  Returned =>
    /\ jsonStr = <<>> =>
         (result = <<>> /\ err = NewFormatError(EmptyInput) /\ tokenCount = 0)
    /\ (jsonStr # <<>> /\ OnlySpace(jsonStr)) =>
         (result = <<>> /\ err = NewFormatError(NoTokens) /\ tokenCount = 0)

\* Format has returned on an input of white space only.
C16_Witness ==
  /\ Returned
  /\ call = "first"
  /\ jsonStr = <<" ">>
  /\ stream = <<>>
  /\ err # NoError

Unclosed == "malformed JSON: unclosed objects or arrays"

\* The step in which decoder.Token reports the end of the input, every token
\* before it having been accepted.
StreamExhausted ==
  /\ pc = "loop"
  /\ pc' = "done"
  /\ jsonStr' = jsonStr
  /\ Token(decoder).kind = "eof"

\* C17 (steps): at the end of the stream the call succeeds exactly when the
\* depth is 0 and a token was consumed, then returning the text built; with
\* depth > 0 it returns the error of unclosed containers and no output.
C17_AtEndOfStream ==
  StreamExhausted =>
    /\ (err' = NoError) <=> (parser.depth = 0 /\ tokenCount >= 1)
    /\ err' = NoError => result' = parser.builder
    /\ parser.depth > 0 => (err' = NewFormatError(Unclosed) /\ result' = <<>>)

\* C17: when the token stream is exhausted without any token having been
\* rejected, Format succeeds if and only if depth = 0 and at least one token
\* was consumed; a stream that ends with depth > 0 yields an error.
C17_EndOfStream == [][C17_AtEndOfStream]_vars

\* Format has returned on a stream that ended inside an open container.
C17_Witness ==
  /\ Returned
  /\ err = NewFormatError(Unclosed)
  /\ parser.depth > 0
  /\ tokenCount >= 1
  /\ Len(stream) = tokenCount

(***************************************************************************)
(* The engine on its own, as token_test.go drives it: a TokenParser is     *)
(* built field by field, and its handlers are called one after another     *)
(* without a decoder.  parser is the TokenParser, stream the tokens handed  *)
(* to the handlers, tokenCount their number and err the error of the last   *)
(* call; no handler is called after one that returned an error.            *)
(***************************************************************************)
MaxEngineDepth == 2

MaxEngineCalls == 2

\* The stacks of at most n entries.
StacksUpTo(n) == UNION {[1..k -> BOOLEAN] : k \in 0..n}

\* parser := &TokenParser{...} followed by the assignments of setupParser.
EngineParsers(cfg) ==
  {[depth |-> d, inArray |-> st, builder |-> <<>>, config |-> cfg,
    isFirstElement |-> first, expectingKey |-> key] :
     d \in 0..MaxEngineDepth, st \in StacksUpTo(MaxEngineDepth),
     first \in BOOLEAN, key \in BOOLEAN}

InitEngine ==
  /\ config \in {DefaultConfig, Config(2, FALSE, 1)}
  /\ scalar = NullToken
  /\ parser \in EngineParsers(config)
  /\ jsonStr = <<>>
  /\ decoder = NewDecoder(<<>>)
  /\ tokenCount = 0
  /\ stream = <<>>
  /\ pc = "engine"
  /\ result = <<>>
  /\ err = NoError
  /\ call = "engine"
  /\ prev = NoCall
  /\ heap = <<>>
  /\ refs = <<>>
  /\ calls = <<>>

\* err := parser.handleX(token), the handler having returned h.
EngineCall(token, h) ==
  /\ pc = "engine"
  /\ err = NoError
  /\ tokenCount < MaxEngineCalls
  /\ parser' = h.p
  /\ err' = h.err
  /\ stream' = Append(stream, token)
  /\ tokenCount' = tokenCount + 1
  /\ UNCHANGED <<heap, refs, calls, config, scalar, jsonStr, decoder, pc, result, call, prev>>

EngineStartObject == EngineCall(Delim("{"), handleDelimiter(parser, "{"))

EngineEndObject == EngineCall(Delim("}"), handleDelimiter(parser, "}"))

EngineStartArray == EngineCall(Delim("["), handleDelimiter(parser, "["))

EngineEndArray == EngineCall(Delim("]"), handleDelimiter(parser, "]"))

EngineHandleString ==
  \E value \in KeyValues \cup {<<"{", "\"">>} :
    EngineCall(StringToken(value), handleString(parser, value))

EngineHandleNumber ==
  \E value \in {Float(10), NaN, Inf(TRUE)} :
    EngineCall(NumberToken(value), handleNumber(parser, value))

EngineHandleBoolean ==
  \E value \in BOOLEAN :
    EngineCall(BoolToken(value), handleBoolean(parser, value))

EngineHandleNull == EngineCall(NullToken, handleNull(parser))

NextEngine ==
  \/ EngineStartObject
  \/ EngineEndObject
  \/ EngineStartArray
  \/ EngineEndArray
  \/ EngineHandleString
  \/ EngineHandleNumber
  \/ EngineHandleBoolean
  \/ EngineHandleNull

SpecEngine == InitEngine /\ [][NextEngine]_vars

(***************************************************************************)
(* Rejected tokens.  processToken is called by the loop of Format, on the  *)
(* tokens of a document, and by the tests of the package on a parser they  *)
(* build, with any token.  Here are both: the calls of Format on the       *)
(* documents of a first call and on the deeply nested ones, which reach    *)
(* the depth limit of startObject and startArray; and calls of             *)
(* processToken on parsers built as token_test.go builds them, the depth   *)
(* taking also the values the checks of processToken and of the handlers   *)
(* tell apart (below 0, at MaxDepth - 1, at MaxDepth, above MaxDepth),     *)
(* with the tokens of every case of its switch: the four delimiters,       *)
(* another delimiter, the scalars, and a value of another type.            *)
(***************************************************************************)
ProcessDepths ==
  (0..MaxEngineDepth) \cup {0 - 1, MaxDepth - 1, MaxDepth, MaxDepth + 1}

\* parser := &TokenParser{...} followed by the assignments of setupParser.
ProcessParsers(cfg) ==
  {[depth |-> d, inArray |-> st, builder |-> <<>>, config |-> cfg,
    isFirstElement |-> first, expectingKey |-> key] :
     d \in ProcessDepths, st \in StacksUpTo(MaxEngineDepth),
     first \in BOOLEAN, key \in BOOLEAN}

\* The values of tt.token.
ProcessTokens ==
  Delims \cup {Delim(":"), IntToken, NullToken}
    \cup {StringToken(value) : value \in KeyValues \cup {<<"{", "\"">>}}
    \cup {NumberToken(value) : value \in {Float(10), NaN, Inf(TRUE)}}
    \cup {BoolToken(value) : value \in BOOLEAN}

InitProcess ==
  /\ config \in {DefaultConfig, Config(2, FALSE, 1)}
  /\ scalar = NullToken
  /\ parser \in ProcessParsers(config)
  /\ jsonStr = <<>>
  /\ decoder = NewDecoder(<<>>)
  /\ tokenCount = 0
  /\ stream = <<>>
  /\ pc = "engine"
  /\ result = <<>>
  /\ err = NoError
  /\ call = "engine"
  /\ prev = NoCall
  /\ heap = <<>>
  /\ refs = <<>>
  /\ calls = <<>>

\* err := parser.processToken(tt.token)
EngineProcessToken ==
  \E token \in ProcessTokens : EngineCall(token, processToken(parser, token))

InitReject == InitDeep \/ InitProcess

NextReject ==
  \/ FormatFirst
  \/ FormatDeep
  \/ DecoderEOF
  \/ DecoderError
  \/ StartObject
  \/ EndObject
  \/ StartArray
  \/ EndArray
  \/ HandleString
  \/ HandleNumber
  \/ HandleBoolean
  \/ HandleNull
  \/ EngineProcessToken

SpecReject == InitReject /\ [][NextReject]_vars

\* The step is a call of a handler on token.
Handles(token) ==
  /\ call = "engine"
  /\ tokenCount' = tokenCount + 1
  /\ stream' = Append(stream, token)

\* The top of the stack of p is an array, or an object.
TopIs(p, array) ==
  Len(p.inArray) > 0 /\ p.inArray[Len(p.inArray)] = array

\* C18 (steps): the closing delimiter of an array (array = TRUE) or of an
\* object is rejected when depth is 0, when the stack is empty or when the
\* top of the stack is of the other kind, and accepted, leaving the
\* container, when depth > 0 and the top of the stack is of its kind.
ClosingRule(c, array) ==
  Handles(Delim(c)) =>
    /\ (parser.depth = 0 \/ Len(parser.inArray) = 0 \/ TopIs(parser, ~array)) =>
         err' # NoError
    /\ (parser.depth > 0 /\ TopIs(parser, array)) =>
         /\ err' = NoError
         /\ parser'.depth = parser.depth - 1
         /\ parser'.inArray = SubSeq(parser.inArray, 1, Len(parser.inArray) - 1)

\* C18: a closing delimiter is rejected with an error when depth is 0, when
\* the stack is empty, or when the top of the stack is of the other kind; it
\* is accepted when depth > 0 and the top of the stack is of the matching kind.
C18_ClosingDelimiter ==
  [][ClosingRule("}", FALSE) /\ ClosingRule("]", TRUE)]_vars

\* A } has been rejected at depth 2 because the innermost container is an
\* array inside an object.
C18_Witness ==
  /\ call = "engine"
  /\ stream # <<>>
  /\ stream[Len(stream)] = Delim("}")
  /\ err # NoError
  /\ parser.depth = 2
  /\ parser.inArray = <<FALSE, TRUE>>

\* The step is a call of a handler on one of tokens.
HandlesOneOf(tokens) == \E token \in tokens : Handles(token)

\* C19 (steps): of the tokens that begin a value, a number, a boolean and
\* null are rejected wherever a key is expected, { and [ are rejected where
\* a key is expected at depth > 0, and a string is accepted where a key is
\* expected inside an object.
KeyPositionRule ==
  parser.expectingKey =>
    /\ HandlesOneOf({NumberToken(Float(10)), BoolToken(TRUE), BoolToken(FALSE), NullToken}) =>
         (err' # NoError /\ parser' = parser)
    /\ (HandlesOneOf({Delim("{"), Delim("[")}) /\ parser.depth > 0) =>
         (err' # NoError /\ parser' = parser)
    /\ (HandlesOneOf({StringToken(k) : k \in KeyValues \cup {<<"{", "\"">>}})
          /\ parser.depth > 0 /\ TopIs(parser, FALSE)) =>
         err' = NoError

\* C19: key-position violation: while expectingKey is true, a number, boolean
\* or null token is rejected with an error at any depth, and a { or [ token
\* is rejected with an error when depth > 0; only a string token is accepted
\* at a key position inside an object.
C19_KeyPosition == [][KeyPositionRule]_vars

\* A { has been rejected where the key of a member was expected.
C19_Witness ==
  /\ call = "engine"
  /\ stream # <<>>
  /\ stream[Len(stream)] = Delim("{")
  /\ err = NewFormatError("malformed JSON: unexpected object start, expected object key")
  /\ parser.expectingKey
  /\ parser.depth = 1
  /\ parser.inArray = <<FALSE>>

(***************************************************************************)
(* The engine on long strings, as TestTokenParserHandleString drives it:   *)
(* handleString is called once on a string of MaxStringLen characters or   *)
(* one more, and the test ends.  The record of the calls holds the length  *)
(* of a long string in place of its characters.                            *)
(***************************************************************************)
\* strings.Repeat("a", n)
LongString(n) == <<>> \o [i \in 1..n |-> "a"]

LongStringToken(n) == [kind |-> "string", s |-> <<>>, n |-> Float(n), b |-> FALSE]

LongLengths == {MaxStringLen, MaxStringLen + 1}

\* The parsers of the test: at the top level, in an object and in an array,
\* a key being expected or not.
StringParsers(cfg) ==
  {p \in EngineParsers(cfg) :
     p.isFirstElement /\ p.depth <= 1 /\ p.depth = Len(p.inArray)}

InitString ==
  /\ config = DefaultConfig
  /\ scalar = NullToken
  /\ parser \in StringParsers(config)
  /\ jsonStr = <<>>
  /\ decoder = NewDecoder(<<>>)
  /\ tokenCount = 0
  /\ stream = <<>>
  /\ pc = "engine"
  /\ result = <<>>
  /\ err = NoError
  /\ call = "engine"
  /\ prev = NoCall
  /\ heap = <<>>
  /\ refs = <<>>
  /\ calls = <<>>

\* err := parser.handleString(tt.value), the last statement of the test.
EngineHandleLongString ==
  /\ pc = "engine"
  /\ tokenCount = 0
  /\ \E n \in LongLengths :
       \E h \in {handleString(parser, LongString(n))} :
         /\ parser' = h.p
         /\ err' = h.err
         /\ stream' = Append(stream, LongStringToken(n))
  /\ tokenCount' = tokenCount + 1
  /\ pc' = "done"
  /\ UNCHANGED <<heap, refs, calls, config, scalar, jsonStr, decoder, result, call, prev>>

NextString ==
  \/ NextEngine
  \/ EngineHandleLongString

SpecString == InitString /\ [][NextString]_vars

TooLarge == "string value too large (exceeds 1MB limit)"

\* The parser is at a place where handleString accepts a string: a value is
\* expected, or a key inside an object.
StringPlace(p) == ~p.expectingKey \/ (p.depth > 0 /\ TopIs(p, FALSE))

\* C20 (steps): handleString rejects a string of more than MaxStringLen
\* characters wherever it stands, and leaves the parser as it was; it does
\* not reject one of MaxStringLen characters for its length, and writes it
\* where a string may stand.
LongStringRule ==
  \A n \in LongLengths :
    Handles(LongStringToken(n)) =>
      IF n > MaxStringLen
      THEN err' = NewFormatError(TooLarge) /\ parser' = parser
      ELSE /\ err' # NewFormatError(TooLarge)
           /\ StringPlace(parser) =>
                (err' = NoError /\ Len(parser'.builder) >= Len(parser.builder) + n)

\* C20: a string token longer than 1,000,000 is rejected with an error
\* whether it is in key or in value position, before anything is written for
\* it; a string of length exactly 1,000,000 is not rejected by this guard.
C20_StringLengthGuard == [][LongStringRule]_vars

\* A key of MaxStringLen + 1 characters has been rejected inside an object.
C20_Witness ==
  /\ call = "engine"
  /\ stream = <<LongStringToken(MaxStringLen + 1)>>
  /\ err = NewFormatError(TooLarge)
  /\ parser.expectingKey
  /\ parser.inArray = <<FALSE>>
  /\ parser.builder = <<>>

\* The step reads a token after the root value of the input is complete.
TokenAfterRoot ==
  /\ pc = "loop"
  /\ call = "first"
  /\ tokenCount >= 1
  /\ parser.depth = 0
  /\ tokenCount' = tokenCount + 1

\* C21 (steps): a token that arrives after the root value is complete (a
\* scalar at depth 0, or depth back at 0 after a closing delimiter) makes
\* Format return an error and no output, whatever the two values are.
SecondValueRejected ==
  TokenAfterRoot => (pc' = "done" /\ err' # NoError /\ result' = <<>>)

\* C21: Format processes exactly one JSON document: a further token after the
\* complete root value is an error, and no second top-level value is appended
\* to the output.
C21_OneDocument == [][SecondValueRejected]_vars

(***************************************************************************)
(* Configurations.  A *Config is an address of heap; DefaultConfig and     *)
(* NewConfig return the address of an instance they allocate, and a        *)
(* ConfigOption is a function that writes to the instance it is given.  An *)
(* option is held as its name and argument; next to the options of the     *)
(* package there are functions written by the caller, which assign any     *)
(* value to a field.                                                       *)
(***************************************************************************)
Option(name, arg) == [name |-> name, arg |-> arg]

\* Mutant of WithIndentSize: the size is not compared with the upper limit.
WithIndentSizeUnbounded(size, c) ==
  IF size >= 0 THEN [c EXCEPT !.IndentSize = size] ELSE c

\* The function WithIndentSize(size) returns, applied to c.
WithIndentSize(size, c) ==
  IF size >= 0 /\ size <= MaxIndentSize THEN [c EXCEPT !.IndentSize = size] ELSE c

WithTabs(c) == [c EXCEPT !.UseTab = TRUE]

WithSpaces(c) == [c EXCEPT !.UseTab = FALSE]

WithCompactDepth(depth, c) ==
  IF depth >= 0 THEN [c EXCEPT !.CompactDepth = depth] ELSE c

\* option(config)
ApplyOption(option, c) ==
  CASE option.name = "WithIndentSize" -> WithIndentSize(option.arg, c)
    [] option.name = "WithTabs" -> WithTabs(c)
    [] option.name = "WithSpaces" -> WithSpaces(c)
    [] option.name = "WithCompactDepth" -> WithCompactDepth(option.arg, c)
    [] option.name = "c.IndentSize =" -> [c EXCEPT !.IndentSize = option.arg]
    [] option.name = "c.CompactDepth =" -> [c EXCEPT !.CompactDepth = option.arg]

\* Mutant of validateConfig: CompactDepth is checked before IndentSize.
validateConfigDepthFirst(c) ==
  IF c.isNil THEN NewFormatError("config cannot be nil")
  ELSE IF c.CompactDepth < 0 THEN NewFormatError("CompactDepth must be non-negative")
  ELSE IF c.IndentSize < 0 THEN NewFormatError("IndentSize must be non-negative")
  ELSE IF c.IndentSize > MaxIndentSize
  THEN NewFormatError("IndentSize must not exceed 20 spaces")
  ELSE NoError

validateConfig(c) ==
  IF c.isNil THEN NewFormatError("config cannot be nil")
  ELSE IF c.IndentSize < 0 THEN NewFormatError("IndentSize must be non-negative")
  ELSE IF c.IndentSize > MaxIndentSize
  THEN NewFormatError("IndentSize must not exceed 20 spaces")
  ELSE IF c.CompactDepth < 0 THEN NewFormatError("CompactDepth must be non-negative")
  ELSE NoError

\* Mutant of newInstance: one instance is handed out again and again.
sharedInstance(h) == IF h = <<>> THEN 1 ELSE Len(h)

\* &Config{...}: the address of a new instance.
newInstance(h) == Len(h) + 1

\* The heap with c stored at address a, which is in use or the next one.
Store(h, a, c) ==
  [i \in 1..(IF a > Len(h) THEN a ELSE Len(h)) |-> IF i = a THEN c ELSE h[i]]

\* A call that took or returned a *Config: its function, the address, the
\* options it was given, and for an option the call whose result it was given.
ConfigCall(by, addr, options, target) ==
  [by |-> by, addr |-> addr, options |-> options, target |-> target]

formatVars ==
  <<config, scalar, jsonStr, decoder, parser, tokenCount, pc, result, err,
    stream, call, prev, calls>>

InitConfig ==
  /\ config = DefaultConfig
  /\ scalar = NullToken
  /\ jsonStr = <<>>
  /\ decoder = NewDecoder(<<>>)
  /\ parser = NewParser(config)
  /\ tokenCount = 0
  /\ stream = <<>>
  /\ pc = "config"
  /\ result = <<>>
  /\ err = NoError
  /\ call = "config"
  /\ prev = NoCall
  /\ heap = <<>>
  /\ refs = <<>>
  /\ calls = <<>>

\* The calls of one behaviour.
MaxConfigCalls == 4

\* config := DefaultConfig()
CallDefaultConfig ==
  /\ pc = "config"
  /\ Len(refs) < MaxConfigCalls
  /\ LET a == newInstance(heap) IN
     /\ heap' = Store(heap, a, DefaultConfig)
     /\ refs' = Append(refs, ConfigCall("DefaultConfig", a, <<>>, Len(refs) + 1))
  /\ UNCHANGED formatVars

\* The options and assignments a caller applies to an instance it holds.
DirectOptions ==
  {Option("WithIndentSize", n) : n \in {0 - 1, 0, 4, MaxIndentSize, MaxIndentSize + 1}}
    \cup {Option("WithTabs", 0), Option("WithSpaces", 0)}
    \cup {Option("WithCompactDepth", d) : d \in {0 - 1, 0}}
    \cup {Option("c.IndentSize =", 4)}

\* option(config), or config.IndentSize = 4, on the result of call i.
CallOption ==
  /\ pc = "config"
  /\ Len(refs) < MaxConfigCalls
  /\ \E i \in 1..Len(refs), option \in DirectOptions :
       /\ refs[i].by = "DefaultConfig"
       /\ heap' = Store(heap, refs[i].addr, ApplyOption(option, heap[refs[i].addr]))
       /\ refs' = Append(refs, ConfigCall("option", refs[i].addr, <<option>>, i))
  /\ UNCHANGED formatVars

NextConfig ==
  \/ CallDefaultConfig
  \/ CallOption

SpecConfig == InitConfig /\ [][NextConfig]_vars

\* The calls of DefaultConfig so far.
DefaultCalls == {i \in 1..Len(refs) : refs[i].by = "DefaultConfig"}

\* The result of call i has been handed to an option or assigned to.
Touched(i) == \E k \in 1..Len(refs) : refs[k].by = "option" /\ refs[k].target = i

HoldsDefaults(c) ==
  ~c.isNil /\ c.IndentSize = 2 /\ c.UseTab = FALSE /\ c.CompactDepth = 3

\* C22: DefaultConfig returns {IndentSize 2, UseTab false, CompactDepth 3},
\* and each call returns an instance of its own: whatever was done to the
\* instances returned before, the instance a later call returns and every
\* instance that was not written to hold the default values.
C22_DefaultConfigIndependent ==
  /\ \A i \in DefaultCalls : ~Touched(i) => HoldsDefaults(heap[refs[i].addr])
  /\ \A i, j \in DefaultCalls : i # j => refs[i].addr # refs[j].addr

\* Of two instances the first was changed, before and after the second was
\* made, and the second holds the defaults.
C22_Witness ==
  /\ Len(refs) = 4
  /\ refs[1].by = "DefaultConfig"
  /\ refs[2] = ConfigCall("option", refs[1].addr, <<Option("c.IndentSize =", 4)>>, 1)
  /\ refs[3].by = "DefaultConfig"
  /\ refs[4] = ConfigCall("option", refs[1].addr, <<Option("WithTabs", 0)>>, 1)
  /\ heap[refs[1].addr].IndentSize = 4
  /\ heap[refs[1].addr].UseTab
  /\ HoldsDefaults(heap[refs[3].addr])

(***************************************************************************)
(* NewConfig, called once on a list of options of the package and of       *)
(* functions of the caller that assign a value out of range.               *)
(***************************************************************************)
MaxOptions == 3

ConfigOptions ==
  {Option("WithIndentSize", n) : n \in {0 - 1, 0, 4, 6, 8, MaxIndentSize, MaxIndentSize + 1}}
    \cup {Option("WithTabs", 0), Option("WithSpaces", 0)}
    \cup {Option("WithCompactDepth", d) : d \in {0 - 1, 0, 2}}
    \cup {Option("c.IndentSize =", n) : n \in {0 - 1, MaxIndentSize + 1}}
    \cup {Option("c.CompactDepth =", 0 - 1)}

\* Mutant of ApplyOptions: the options applied from the last to the first.
RECURSIVE ApplyOptionsBackwards(_, _)
ApplyOptionsBackwards(options, c) ==
  IF options = <<>> THEN c
  ELSE ApplyOption(Head(options), ApplyOptionsBackwards(Tail(options), c))

\* for _, option := range options { option(config) }
RECURSIVE ApplyOptions(_, _)
ApplyOptions(options, c) ==
  IF options = <<>> THEN c
  ELSE ApplyOptions(Tail(options), ApplyOption(Head(options), c))

\* Mutant of invalidConfig: the validation is passed over.
invalidConfigIgnored(c) == FALSE

\* if err := validateConfig(config); err != nil
invalidConfig(c) == validateConfig(c) # NoError

\* config := NewConfig(options...): the instance the options are applied to
\* is returned, or a new default one when it is not valid.
CallNewConfig ==
  /\ pc = "config"
  /\ refs = <<>>
  /\ \E n \in 0..MaxOptions : \E options \in [1..n -> ConfigOptions] :
       LET a == newInstance(heap)
           h == Store(heap, a, ApplyOptions(options, DefaultConfig))
       IN IF invalidConfig(h[a])
          THEN LET b == newInstance(h) IN
               /\ heap' = Store(h, b, DefaultConfig)
               /\ refs' = Append(refs, ConfigCall("NewConfig", b, options, 1))
          ELSE /\ heap' = h
               /\ refs' = Append(refs, ConfigCall("NewConfig", a, options, 1))
  /\ UNCHANGED formatVars

NextNewConfig == CallNewConfig

SpecNewConfig == InitConfig /\ [][NextNewConfig]_vars

\* NewConfig has returned c for options.
NewConfigReturned(options, c) ==
  /\ refs # <<>>
  /\ refs[1].by = "NewConfig"
  /\ options = refs[1].options
  /\ c = heap[refs[1].addr]

\* The option writes to the field: an option of the package when its
\* argument is in range, an assignment always.
Sets(option, field) ==
  CASE option.name = "WithIndentSize" ->
         field = "IndentSize" /\ option.arg >= 0 /\ option.arg <= 20
    [] option.name \in {"WithTabs", "WithSpaces"} -> field = "UseTab"
    [] option.name = "WithCompactDepth" -> field = "CompactDepth" /\ option.arg >= 0
    [] option.name = "c.IndentSize =" -> field = "IndentSize"
    [] option.name = "c.CompactDepth =" -> field = "CompactDepth"

Written(option) ==
  CASE option.name = "WithTabs" -> TRUE
    [] option.name = "WithSpaces" -> FALSE
    [] OTHER -> option.arg

\* The value the last of the options that set the field wrote, or else the
\* given value.
LastSet(options, field, else) ==
  LET setters == {i \in 1..Len(options) : Sets(options[i], field)} IN
  IF setters = {} THEN else
  ELSE Written(options[CHOOSE i \in setters : \A k \in setters : k <= i])

\* The configuration in which every field has the value last set.
LastSetConfig(options) ==
  [isNil |-> FALSE,
   IndentSize |-> LastSet(options, "IndentSize", 2),
   UseTab |-> LastSet(options, "UseTab", FALSE),
   CompactDepth |-> LastSet(options, "CompactDepth", 3)]

InRange(c) ==
  ~c.isNil /\ 0 <= c.IndentSize /\ c.IndentSize <= 20 /\ c.CompactDepth >= 0

\* C23: NewConfig starts from the default and applies the options in the
\* order given: every field of the result holds the value the last option
\* that set it wrote, and the default if no option set it (the result being
\* the configuration so obtained, which is the case whenever it is valid).
C23_LastOptionWins ==
  (refs # <<>> /\ refs[1].by = "NewConfig") =>
    LET expected == LastSetConfig(refs[1].options) IN
    InRange(expected) => heap[refs[1].addr] = expected

\* NewConfig(WithIndentSize(4), WithIndentSize(6), WithIndentSize(8)) has
\* returned a configuration of IndentSize 8.
C23_Witness ==
  /\ NewConfigReturned(<<Option("WithIndentSize", 4), Option("WithIndentSize", 6),
                         Option("WithIndentSize", 8)>>,
                       Config(8, FALSE, 3))

\* C24: NewConfig returns a valid configuration (0 <= IndentSize <= 20 and
\* CompactDepth >= 0) for every list of options, functions of the caller
\* among them; when the configuration the options lead to is not valid, the
\* result holds the default in every field, also in those that other options
\* set validly.
C24_AlwaysValid ==
  (refs # <<>> /\ refs[1].by = "NewConfig") =>
    /\ refs[1].addr \in 1..Len(heap)
    /\ InRange(heap[refs[1].addr])
    /\ ~InRange(LastSetConfig(refs[1].options)) =>
         HoldsDefaults(heap[refs[1].addr])

\* NewConfig(WithTabs(), func(c) { c.IndentSize = 21 }, WithCompactDepth(2))
\* has returned the default configuration.
C24_Witness ==
  NewConfigReturned(<<Option("WithTabs", 0), Option("c.IndentSize =", 21),
                      Option("WithCompactDepth", 2)>>,
                    Config(2, FALSE, 3))

\* The step applies option to the instance at address a.
Applies(option, a) ==
  /\ call = "config"
  /\ Len(refs') = Len(refs) + 1
  /\ refs'[Len(refs')].by = "option"
  /\ refs'[Len(refs')].options = <<option>>
  /\ refs'[Len(refs')].addr = a

\* C25 (steps): WithIndentSize(n) with n < 0 or n > 20 and
\* WithCompactDepth(d) with d < 0 leave the configuration as it was; with an
\* argument in range (0 and 20 among them) they set their own field and leave
\* the other fields as they were.
SetterRule ==
  \A option \in DirectOptions, a \in 1..Len(heap) :
    Applies(option, a) =>
      /\ option.name = "WithIndentSize" =>
           heap'[a] = IF option.arg < 0 \/ option.arg > 20 THEN heap[a]
                      ELSE [heap[a] EXCEPT !.IndentSize = option.arg]
      /\ option.name = "WithCompactDepth" =>
           heap'[a] = IF option.arg < 0 THEN heap[a]
                      ELSE [heap[a] EXCEPT !.CompactDepth = option.arg]
      /\ \A b \in 1..Len(heap) : b # a => heap'[b] = heap[b]

\* C25: the bounds-checked option setters ignore out-of-range arguments at
\* the point of application and otherwise set exactly their own field.
C25_SettersCheckBounds == [][SetterRule]_vars

\* WithIndentSize(21) has been applied to an instance that WithIndentSize(20)
\* was applied to before, and the instance still has IndentSize 20.
C25_Witness ==
  /\ Len(refs) = 3
  /\ refs[2].options = <<Option("WithIndentSize", 20)>>
  /\ refs[3].options = <<Option("WithIndentSize", 21)>>
  /\ refs[3].addr = refs[2].addr
  /\ heap[refs[3].addr] = Config(20, FALSE, 3)

(***************************************************************************)
(* The configuration of a Formatter.  Format hands the Formatter's *Config *)
(* to the parser of the call (config: f.config), so parser.config is the   *)
(* configuration as the call leaves it, and config is the configuration    *)
(* the Formatter was made with.                                            *)
(***************************************************************************)

\* C26: Format never modifies the configuration: during and after every
\* call, the first or a later one, successful or failed, the configuration
\* holds the values the Formatter was made with.
C26_ConfigNeverModified ==
  pc \in {"loop", "done"} => parser.config = config

\* A second call has returned after a first call that failed in the middle
\* of a document, and the configuration is the one of the start.
C26_Witness ==
  /\ Returned
  /\ call = "again"
  /\ prev.err # NoError
  /\ Len(prev.stream) >= 4
  /\ parser.depth >= 1
  /\ parser.config = config

\* A step in which a later call of the same Formatter enters its token loop.
LaterCallStarts ==
  /\ pc = "done"
  /\ call' # call
  /\ pc' = "loop"

\* C28 (steps): a later call starts from the initial engine state: depth 0,
\* an empty container stack, an empty builder, the first-element flag set, no
\* key expected, a token count of 0 and a decoder at the start of the input
\* of this call, whatever the parser of the earlier call looked like.
StartsFresh ==
  LaterCallStarts =>
    /\ parser' = NewParser(config)
    /\ tokenCount' = 0
    /\ decoder' = NewDecoder(jsonStr')

\* C28: every Format call starts from the initial engine state, whatever
\* happened in earlier calls; a failed call leaves nothing behind.
C28_FreshEngineState == [][StartsFresh]_vars

\* A second call is at the start of its token loop with a parser in the
\* initial state, after a first call that failed inside a container and left
\* a parser with depth and text.
C28_Witness ==
  /\ pc = "loop"
  /\ call = "again"
  /\ tokenCount = 0
  /\ prev.err # NoError
  /\ Len(prev.stream) >= 4
  /\ prev.stream[1] \in {Delim("{"), Delim("[")}
  /\ parser = NewParser(config)

(***************************************************************************)
(* Concurrent calls.  Several goroutines call Format on Formatters that    *)
(* share one *Config.  What a call works on is made in the call: the       *)
(* decoder, the builder and the TokenParser (parser := &TokenParser{...})  *)
(* are new objects, and tokenCount is a local.  calls holds the locals of  *)
(* every call, the TokenParser objects by address, and whether the steps   *)
(* of two calls have been interleaved.                                     *)
(***************************************************************************)
MaxCallers == 2

Callers == 1..MaxCallers

\* The inputs of the concurrent calls: two documents, the first with a
\* number and a string that are not written as they are read
\* ({"a":[-2.5e3,"\n<\u0041"]}), a document with an unclosed array, a text
\* the decoder rejects, and the empty string.
ConcurrentInputs ==
  { <<"{", "\"", "a", "\"", ":", "[", "-", "2", ".", "5", "e", "3", ",",
      "\"", "\\", "n", "<", "\\", "u", "0", "0", "4", "1", "\"", "]", "}">>,
    <<"[", "{", "}", ",", "t", "r", "u", "e", "]">>,
    <<"[", "1", "0">>,
    <<"{", "]">>,
    <<>> }

\* Mutant of ownParser: the calls work on one TokenParser.
oneParser(caller) == 1

\* parser := &TokenParser{...}: the TokenParser of a call is an object of
\* its own.
ownParser(caller) == caller

\* The locals of a goroutine that has not called Format yet.
NotCalled ==
  [jsonStr |-> <<>>, decoder |-> NewDecoder(<<>>), tokenCount |-> 0,
   pc |-> "idle", result |-> <<>>, err |-> NoError]

Returns(c, o) == [c EXCEPT !.pc = "done", !.result = o.result, !.err = o.err]

\* Format up to its token loop, on the text input: the locals of the call
\* and its TokenParser.
FormatStart(input, cfg) ==
  LET c == [NotCalled EXCEPT !.jsonStr = input, !.decoder = NewDecoder(input)]
      p == NewParser(cfg)
  IN IF input = <<>>
     THEN [c |-> Returns(c, ReturnError(p, NewFormatError("input JSON string is empty"))),
           p |-> p]
     ELSE [c |-> [c EXCEPT !.pc = "loop"], p |-> p]

\* One iteration of the token loop of a call with locals c on the
\* TokenParser p, and the return of Format when the loop ends.
FormatStep(c, p) ==
  LET \* err = parser.processToken(token); if err != nil { return "", err }
      Processed(counted, h) ==
        IF h.err # NoError
        THEN [c |-> Returns(counted, Failed(h.p, h.err)), p |-> h.p]
        ELSE [c |-> counted, p |-> h.p]
      \* tokenCount++; if tokenCount > 10000 { return "", ... }
      Counted(counted, token) ==
        IF tooManyTokens(counted.tokenCount)
        THEN [c |-> Returns(counted, ReturnError(p, NewFormatError(
                "JSON structure too complex or malformed (too many tokens)"))),
              p |-> p]
        ELSE Processed(counted, processToken(p, token))
      \* token, err := decoder.Token(), r being what it returns and read the
      \* locals with the decoder it leaves
      Decoded(r, read) ==
        IF r.kind = "eof"
        THEN [c |-> Returns(read, finish(p, c.tokenCount)), p |-> p]
        ELSE IF r.kind = "error"
        THEN [c |-> Returns(read, ReturnError(p,
                WrapFormatErrorWithPosition(
                  "invalid JSON input",
                  calculatePosition(Len(c.jsonStr), readerLen(c.jsonStr, r.dec)),
                  <<r.err>>))),
              p |-> p]
        ELSE Counted([read EXCEPT !.tokenCount = @ + 1], r.token)
      Read(r) == Decoded(r, [c EXCEPT !.decoder = r.dec])
  IN Read(Token(c.decoder))

\* A call run alone, from the state st to its return.
RECURSIVE FormatRun(_)
FormatRun(st) ==
  IF st.c.pc = "done" THEN Outcome(st.c.result, st.c.err)
  ELSE FormatRun(FormatStep(st.c, st.p))

\* Format(input) on a Formatter with configuration cfg, with no other call.
FormatAlone(input, cfg) == FormatRun(FormatStart(input, cfg))

InitConcurrent ==
  /\ config \in {DefaultConfig, Config(2, TRUE, 1)}
  /\ scalar = NullToken
  /\ jsonStr = <<>>
  /\ decoder = NewDecoder(<<>>)
  /\ parser = NewParser(config)
  /\ tokenCount = 0
  /\ pc = "concurrent"
  /\ result = <<>>
  /\ err = NoError
  /\ stream = <<>>
  /\ call = "concurrent"
  /\ prev = NoCall
  /\ heap = <<>>
  /\ refs = <<>>
  /\ calls = [locals |-> [i \in Callers |-> NotCalled],
              parsers |-> [i \in Callers |-> NewParser(config)],
              interleaved |-> FALSE]

\* Another call is inside its token loop.
OthersInLoop(i) ==
  \E j \in Callers \ {i} : calls.locals[j].pc = "loop" /\ calls.locals[j].tokenCount > 0

\* A goroutine calls Format.
CallerFormat ==
  /\ call = "concurrent"
  /\ \E i \in Callers, input \in ConcurrentInputs :
       /\ calls.locals[i].pc = "idle"
       /\ LET st == FormatStart(input, config) IN
          calls' = [calls EXCEPT !.locals[i] = st.c,
                                 !.parsers[ownParser(i)] = st.p]
  /\ UNCHANGED <<config, scalar, jsonStr, decoder, parser, tokenCount, pc,
                 result, err, stream, call, prev, heap, refs>>

\* A goroutine runs one iteration of the token loop of its call.
CallerIterate ==
  /\ call = "concurrent"
  /\ \E i \in Callers :
       /\ calls.locals[i].pc = "loop"
       /\ LET Stepped(st) ==
                calls' = [calls EXCEPT !.locals[i] = st.c,
                                       !.parsers[ownParser(i)] = st.p,
                                       !.interleaved = @ \/ OthersInLoop(i)]
          IN Stepped(FormatStep(calls.locals[i], calls.parsers[ownParser(i)]))
  /\ UNCHANGED <<config, scalar, jsonStr, decoder, parser, tokenCount, pc,
                 result, err, stream, call, prev, heap, refs>>

NextConcurrent ==
  \/ CallerFormat
  \/ CallerIterate

SpecConcurrent == InitConcurrent /\ [][NextConcurrent]_vars

\* C27: concurrent Format calls sharing one Config do not interfere: under
\* every interleaving of their steps, each call returns the result and the
\* error it returns when it is run alone, and the Config holds the values
\* it had.
C27_ConcurrentCallsIndependent ==
  call = "concurrent" =>
    \A i \in Callers :
      /\ calls.locals[i].pc = "done" =>
           Outcome(calls.locals[i].result, calls.locals[i].err)
             = FormatAlone(calls.locals[i].jsonStr, config)
      /\ calls.parsers[i].config = config

\* Two calls on different inputs have returned after their iterations were
\* interleaved, one with a document and one with an error.
C27_Witness ==
  /\ call = "concurrent"
  /\ calls.interleaved
  /\ calls.locals[1].pc = "done"
  /\ calls.locals[2].pc = "done"
  /\ calls.locals[1].err = NoError
  /\ Len(calls.locals[1].result) > 10
  /\ calls.locals[2].err # NoError
  /\ calls.locals[2].tokenCount >= 2

(***************************************************************************)
(* Internal faults.  Format defers a function that recovers a panic of the *)
(* call and turns it into the error of the call.  A fault is a panic in    *)
(* an iteration of the token loop, with a value that is an error (a        *)
(* runtime error such as a nil dereference), a string, or a value of       *)
(* another type.  The Formatter may have been built without a Config       *)
(* (&Formatter{}): its config is nil.  It may have been built on a Config  *)
(* that validateConfig rejects, which NewFormatter does not call: with a   *)
(* negative IndentSize strings.Repeat panics in writeIndent.               *)
(***************************************************************************)
NilConfig == [DefaultConfig EXCEPT !.isNil = TRUE]

PanicValues ==
  { [kind |-> "error", msg |-> "runtime error: invalid memory address or nil pointer dereference"],
    [kind |-> "string", msg |-> "index out of range"],
    [kind |-> "other", msg |-> "42"] }

InitFault ==
  /\ config \in {DefaultConfig, Config(2, TRUE, 2), NilConfig, Config(-1, FALSE, 0)}
  /\ scalar \in {NumberToken(Float(10)), BoolToken(TRUE), NullToken}
  /\ jsonStr = <<>>
  /\ decoder = NewDecoder(<<>>)
  /\ parser = NewParser(config)
  /\ tokenCount = 0
  /\ pc = "idle"
  /\ result = <<>>
  /\ err = NoError
  /\ stream = <<>>
  /\ call = "first"
  /\ prev = NoCall
  /\ heap = <<>>
  /\ refs = <<>>
  /\ calls = <<>>

\* A panic in the token loop: the stack unwinds to the deferred function,
\* and Format returns what it sets.
Panic ==
  /\ pc = "loop"
  /\ call = "first"
  /\ \E v \in PanicValues : Return(recovered(v))
  /\ call' = "fault"
  /\ UNCHANGED <<config, scalar, jsonStr, decoder, parser, tokenCount, stream,
                 prev, heap, refs, calls>>

NextFault ==
  \/ Next
  \/ Panic

SpecFault == InitFault /\ [][NextFault]_vars

\* C29: an internal fault at any point of the token loop does not escape
\* Format: the call returns the empty result and a non-nil error; and so
\* does every call on a Formatter whose config is nil.  The panic of
\* strings.Repeat under a negative IndentSize does not escape either: Format
\* returns an error, never the panic, and no result with it.
C29_FaultsRecovered ==
  /\ call = "fault" => (pc = "done" /\ result = <<>> /\ err # NoError)
  /\ (config.isNil /\ pc = "done") => (result = <<>> /\ err # NoError)
  /\ ~IsPanic(err)
  /\ (pc = "done" /\ config.IndentSize < 0 /\ err # NoError) => result = <<>>

\* A call has returned from a panic with a value of another type, raised
\* after three tokens were written.
C29_Witness ==
  /\ call = "fault"
  /\ pc = "done"
  /\ tokenCount >= 3
  /\ parser.builder # <<>>
  /\ err = <<"unexpected panic during formatting">>

(***************************************************************************)
(* Termination.  Format runs on one goroutine and calls nothing that       *)
(* blocks (the decoder reads from a strings.Reader), so an iteration of    *)
(* the loop that has started is completed: the steps of the call are       *)
(* weakly fair.  The calls are those of Spec under the default             *)
(* configuration, whose input ends after MaxTokens tokens at the latest,   *)
(* and those of SpecLong, whose input goes on for as long as it is read.   *)
(***************************************************************************)
InitLive ==
  \/ /\ Init
     /\ config = DefaultConfig
     /\ scalar \in {NumberToken(Float(10)), BoolToken(TRUE), NullToken}
  \/ InitLong

NextLive == Next

SpecLive == InitLive /\ [][NextLive]_vars /\ WF_vars(NextLive)

\* The characters of the input the decoder has read as tokens or passed
\* between them.
Consumed == Len(jsonStr) - Len(decoder.buf)

\* C30 (steps): an iteration of the loop reads one token, which moves the
\* decoder forward in the input and is counted, or ends the call; and the
\* loop is not entered again with more than MaxTokenCount tokens counted.
LoopProgress ==
  pc = "loop" =>
    \/ pc' = "done"
    \/ /\ pc' = "loop"
       /\ tokenCount' = tokenCount + 1
       /\ tokenCount' <= MaxTokenCount
       /\ Len(stream') = Len(stream) + 1
       /\ Consumed' > Consumed

\* C30: Format always terminates: every iteration of the loop consumes one
\* token, ends the loop or returns an error, the loop returns after at most
\* 10,001 tokens, and every call that has entered the loop returns.
C30_Terminates ==
  /\ [][LoopProgress]_vars
  /\ [](tokenCount <= MaxTokenCount + 1)
  /\ (pc = "loop") ~> (pc = "done")

\* A call has returned after its input ended inside a document of six
\* tokens.
C30_Witness ==
  /\ pc = "done"
  /\ call = "first"
  /\ tokenCount = 6
  /\ Token(decoder).kind = "eof"
  /\ parser.depth > 0

(***************************************************************************)
(* The engine state after each token of a Format call.                     *)
(***************************************************************************)
\* The step is an iteration of the loop whose token, one of tokens, the
\* engine accepted.
Accepts(tokens) ==
  /\ pc = "loop"
  /\ pc' = "loop"
  /\ tokenCount' = tokenCount + 1
  /\ stream'[Len(stream')] \in tokens

\* The container that encloses the next token is an object.
EnclosedByObject(p) == p.depth > 0 /\ p.inArray # <<>> /\ ~isInArray(p)

\* C31 (steps): after a closing delimiter, a key is expected exactly when
\* the container that now encloses the position is an object.
KeyAfterClose ==
  Accepts({Delim("}"), Delim("]")}) =>
    (parser'.expectingKey <=> EnclosedByObject(parser'))

\* C31: after a closing delimiter has been processed, expectingKey is true
\* exactly when the new enclosing container is an object, and false when it
\* is an array or when depth has returned to 0, for } as well as for ].
C31_KeyExpectedAfterClose == [][KeyAfterClose]_vars

\* The scalar tokens.
IsScalar(token) == token.kind # "delim"

\* C32 (states): the depth is between 0 and MaxDepth and the container-kind
\* stack has one entry for each level.
DepthInRange ==
  /\ 0 <= parser.depth
  /\ parser.depth <= MaxDepth
  /\ Len(parser.inArray) = parser.depth

\* C32 (steps): an accepted opening delimiter pushes the kind of its
\* container and adds 1 to the depth, an accepted closing delimiter pops one
\* entry and subtracts 1, and an accepted scalar changes neither.
DepthSteps ==
  /\ Accepts({Delim("{")}) =>
       /\ parser'.depth = parser.depth + 1
       /\ parser'.inArray = Append(parser.inArray, FALSE)
  /\ Accepts({Delim("[")}) =>
       /\ parser'.depth = parser.depth + 1
       /\ parser'.inArray = Append(parser.inArray, TRUE)
  /\ Accepts({Delim("}"), Delim("]")}) =>
       /\ parser'.depth = parser.depth - 1
       /\ parser'.inArray = SubSeq(parser.inArray, 1, Len(parser.inArray) - 1)
  /\ (pc = "loop" /\ tokenCount' = tokenCount + 1
        /\ IsScalar(stream'[Len(stream')])) =>
       /\ parser'.depth = parser.depth
       /\ parser'.inArray = parser.inArray

\* C32: in every reachable engine state 0 <= depth <= 100 and the length of
\* the container-kind stack equals depth; opening delimiters add one level
\* of their kind, closing delimiters remove one, scalars change neither.
C32_DepthAndStack == []DepthInRange /\ [][DepthSteps]_vars

\* A document of objects and arrays in turn has been opened to the depth
\* limit, and its innermost array has been closed again.
C32_Witness ==
  /\ pc = "loop"
  /\ call = "deep"
  /\ parser.depth = MaxDepth - 1
  /\ Len(parser.inArray) = MaxDepth - 1
  /\ parser.inArray[1] = FALSE
  /\ parser.inArray[2] = TRUE
  /\ stream[Len(stream)] = Delim("]")

\* The text the step appends to the output buffer.
Emitted == SubSeq(parser'.builder, Len(parser.builder) + 1, Len(parser'.builder))

\* The step appends to the output buffer and changes nothing in it.
Appends == SubSeq(parser'.builder, 1, Len(parser.builder)) = parser.builder

\* C33 (steps): a container of inner depth d is closed with the delimiter
\* alone when the configuration makes depth d compact, and otherwise with a
\* new line, the indentation of depth d - 1 and the delimiter.
ClosingLayout ==
  \A c \in {Delim("}"), Delim("]")} :
    Accepts({c}) =>
      LET d == parser.depth IN
      /\ Appends
      /\ Emitted = IF config.CompactDepth > 0 /\ d >= config.CompactDepth
                   THEN c.s
                   ELSE <<"\n">> \o Indentation(config, d - 1) \o c.s

\* C33: on a closing delimiter, compactness is decided with the depth before
\* the pop, and the new line and the indentation are written with the depth
\* after the pop.
C33_ClosingLayout == [][ClosingLayout]_vars

\* An object of inner depth 2 has been closed under compactDepth 2, where
\* depth 1 is not compact: the brace follows the opening brace directly.
C33_Witness ==
  /\ pc = "loop"
  /\ config.CompactDepth = 2
  /\ stream # <<>>
  /\ stream[Len(stream)] = Delim("}")
  /\ parser.depth = 1
  /\ SubSeq(parser.builder, Len(parser.builder) - 1, Len(parser.builder))
       = <<"{", "}">>

(***************************************************************************)
(* The place of the next token in the document, as the decoder knows it    *)
(* after the tokens read so far.                                           *)
(***************************************************************************)
\* The next token, if a string, is an object key.
AtKey == decoder.tokenState \in {"tokenObjectStart", "tokenObjectComma"}

\* The next token is the first child of its container.
AtFirstChild == decoder.tokenState \in {"tokenObjectStart", "tokenArrayStart"}

\* The next token is the value of the object key read last.
AfterKey == decoder.tokenState = "tokenObjectColon"

\* The next token is an array element.
AtElement == decoder.tokenState \in {"tokenArrayStart", "tokenArrayComma"}

\* The next token is at the root.
AtRoot == decoder.tokenState = "tokenTopValue"

StringTokens == {t \in Scalars : t.kind = "string"}

\* The separator the claims give for a child of a container laid out
\* compactly or not: nothing or a new line and indentation before the first
\* child, a comma and a space or a new line and indentation before a later
\* one.
ChildPrefix(first, compact, p) ==
  (IF first THEN <<>> ELSE <<",">>)
    \o (IF compact THEN (IF first THEN <<>> ELSE <<" ">>)
        ELSE <<"\n">> \o Indentation(p.config, p.depth))

\* C34 (steps): the text written for an object key, and the flags after it.
KeyLayout ==
  (AtKey /\ parser.expectingKey /\ Accepts(StringTokens)) =>
    LET key == stream'[Len(stream')] IN
    /\ Appends
    /\ Emitted = ChildPrefix(AtFirstChild, shouldFormatCompact(parser), parser)
                   \o <<"\"">> \o EscapeChars(key.s) \o <<"\"", ":">>
    /\ ~parser'.isFirstElement
    /\ ~parser'.expectingKey

\* C34: a string token consumed as an object key is emitted after a comma
\* and a space or a new line with indentation (not the first member), or
\* after nothing or a new line with indentation (the first member), as the
\* quoted, escaped key and a colon; afterwards isFirstElement and
\* expectingKey are false.
C34_KeyLayout == [][KeyLayout]_vars

\* The tokens that begin a value: the scalars and the opening delimiters.
ValueTokens == Scalars \cup {Delim("{"), Delim("[")}

\* What may stand between the element written before and an array element:
\* nothing, or one of the separators of a child; no space of its own.
ElementPrefixes(p) ==
  {<<>>} \cup {ChildPrefix(first, shouldFormatCompact(p), p) : first \in BOOLEAN}

\* C35 (steps): the text written before a value, by the place of the value
\* in the document, and expectingKey after a scalar.
ValueLayout ==
  \A token \in ValueTokens :
    Accepts({token}) =>
      /\ AfterKey => (Appends /\ Emitted = <<" ">> \o Lexeme(token))
      /\ AtRoot => (Appends /\ Emitted = Lexeme(token))
      /\ AtElement =>
           /\ Appends
           /\ \E prefix \in ElementPrefixes(parser) :
                Emitted = prefix \o Lexeme(token)
      /\ (AfterKey /\ IsScalar(token)) => parser'.expectingKey
      /\ (AtElement /\ IsScalar(token)) => ~parser'.expectingKey

\* C35: a value that directly follows an object key is emitted with exactly
\* one leading space and no comma and no new line before it; a value at the
\* root or an array element is emitted with no leading space; after a scalar
\* value in an object expectingKey is true, after a scalar array element it
\* is false.
C35_ValueLayout == [][ValueLayout]_vars

\* C36 (steps): an element of an array that is not laid out compactly is
\* written after a new line and the indentation of the inner depth of the
\* array, the first element without a comma and a later one after a comma.
ElementLayout ==
  \A token \in ValueTokens :
    (AtElement /\ ~shouldFormatCompact(parser) /\ Accepts({token})) =>
      /\ Appends
      /\ Emitted = ChildPrefix(AtFirstChild, FALSE, parser) \o Lexeme(token)

\* C36: every element of a non-compact array, a scalar, an object or a
\* nested array, starts on its own line indented to the inner depth of the
\* array; an opening [ is laid out as an opening { is.
C36_ElementLayout == [][ElementLayout]_vars

\* The text of p's output buffer before its last n characters.
BeforeLast(p, n) == SubSeq(p.builder, 1, Len(p.builder) - n)

\* The last n characters of p's output buffer.
Last(p, n) == SubSeq(p.builder, Len(p.builder) - n + 1, Len(p.builder))

\* The string the other scalars are compared with.
ReferenceString == StringToken(<<"a">>)

\* C37 (steps): a call of handleNumber, handleBoolean or handleNull on a
\* parser that expects no key does what handleString does on the same
\* parser: it fails when handleString fails, and otherwise the output buffer
\* differs in the text of the value only and depth, stack, isFirstElement
\* and expectingKey are the same.
LikeString ==
  \A token \in {NumberToken(Float(10)), BoolToken(TRUE), BoolToken(FALSE), NullToken} :
    (Handles(token) /\ ~parser.expectingKey) =>
      LET s == handleString(parser, ReferenceString.s)
          text == Lexeme(token)
          stext == Lexeme(ReferenceString)
      IN /\ (err' = NoError) <=> (s.err = NoError)
         /\ err' = NoError =>
              /\ Last(parser', Len(text)) = text
              /\ Last(s.p, Len(stext)) = stext
              /\ BeforeLast(parser', Len(text)) = BeforeLast(s.p, Len(stext))
         /\ parser'.depth = s.p.depth
         /\ parser'.inArray = s.p.inArray
         /\ parser'.isFirstElement = s.p.isFirstElement
         /\ parser'.expectingKey = s.p.expectingKey

\* C37: number, boolean and null tokens are handled exactly like a string
\* token in value position: the same separator, new line, indentation and
\* leading space before the value text, and the same depth, stack,
\* isFirstElement and expectingKey afterwards.
C37_ScalarsLikeString == [][LikeString]_vars

\* handleNumber has written a later element of a non-compact array at depth
\* 2: a comma, a new line, the indentation and the number.
C37_Witness ==
  /\ call = "engine"
  /\ stream # <<>>
  /\ stream[Len(stream)] = NumberToken(Float(10))
  /\ err = NoError
  /\ parser.depth = 2
  /\ isInArray(parser)
  /\ Len(parser.builder) >= 4
  /\ parser.builder[1] = ","
  /\ parser.builder[2] = "\n"
  /\ Last(parser, 2) = <<"1", "0">>

(***************************************************************************)
(* validateConfig called as the tests of the package call it: on nil and   *)
(* on a Config literal the caller has made, with fields inside and outside *)
(* the ranges.  A call is recorded in refs with the address of the         *)
(* instance (0 for nil) and the values it was made with.                   *)
(***************************************************************************)
MaxValidateCalls == 1

\* The Config literals of the callers: IndentSize and CompactDepth up to two
\* steps beyond their limits.
ValidatedConfigs ==
  {Config(size, tab, depth) :
     size \in (0 - 2)..(MaxIndentSize + 2), tab \in BOOLEAN, depth \in (0 - 2)..3}

\* err := validateConfig(config), on a literal or on nil.
CallValidateConfig ==
  /\ pc = "config"
  /\ Len(refs) < MaxValidateCalls
  /\ \/ \E c \in ValidatedConfigs :
          LET a == newInstance(heap) IN
          /\ heap' = Store(heap, a, c)
          /\ refs' = Append(refs, ConfigCall("validateConfig", a, <<c>>, Len(refs) + 1))
          /\ err' = validateConfig(c)
     \/ /\ heap' = heap
        /\ refs' = Append(refs, ConfigCall("validateConfig", 0, <<NilConfig>>, Len(refs) + 1))
        /\ err' = validateConfig(NilConfig)
  /\ UNCHANGED <<config, scalar, jsonStr, decoder, parser, tokenCount, pc, result,
                 stream, call, prev, calls>>

NextValidate == CallValidateConfig

SpecValidate == InitConfig /\ [][NextValidate]_vars

\* The error the claim gives for the configuration c.
FirstConstraint(c) ==
  IF c.isNil THEN <<"config cannot be nil">>
  ELSE IF c.IndentSize < 0 THEN <<"IndentSize must be non-negative">>
  ELSE IF c.IndentSize > 20 THEN <<"IndentSize must not exceed 20 spaces">>
  ELSE IF c.CompactDepth < 0 THEN <<"CompactDepth must be non-negative">>
  ELSE <<>>

\* C38 (steps): a call of validateConfig returns an error exactly for nil,
\* IndentSize < 0, IndentSize > 20 and CompactDepth < 0, the message names
\* the first of these constraints that failed, and the instance holds the
\* values it held.
ValidateRule ==
  (call = "config" /\ Len(refs') = Len(refs) + 1
     /\ refs'[Len(refs')].by = "validateConfig") =>
    LET r == refs'[Len(refs')]
        c == r.options[1]
    IN /\ (err' # NoError) <=>
            (c.isNil \/ c.IndentSize < 0 \/ c.IndentSize > 20 \/ c.CompactDepth < 0)
       /\ err' = FirstConstraint(c)
       /\ r.addr # 0 => heap'[r.addr] = c

\* C38: validateConfig returns an error if and only if the configuration is
\* nil, IndentSize < 0, IndentSize > 20 or CompactDepth < 0; the checks are
\* made in that order and the message names the first constraint that
\* failed; the configuration is not modified.
C38_ValidateConfig == [][ValidateRule]_vars

\* validateConfig has been called on a configuration that breaks two
\* constraints, IndentSize > 20 and CompactDepth < 0, and has named the first.
C38_Witness ==
  /\ refs # <<>>
  /\ refs[Len(refs)].by = "validateConfig"
  /\ refs[Len(refs)].options[1].IndentSize = 21
  /\ refs[Len(refs)].options[1].CompactDepth < 0
  /\ err = <<"IndentSize must not exceed 20 spaces">>

\* The error of handleString for a key outside an object.
KeyOutsideObject ==
  <<"malformed JSON: unexpected object key outside of object context">>

\* C39 (states): no key is expected while the innermost container is an
\* array.
NoKeyInArray ==
  (pc \in {"loop", "done"} /\ parser.inArray # <<>> /\ isInArray(parser)) =>
    ~parser.expectingKey

\* C39 (steps): a string token that is an array element is written as a
\* value, and the error for a key outside an object is returned at depth 0
\* only.
NoKeyAsElement ==
  /\ (pc = "loop" /\ err' = KeyOutsideObject) => parser.depth = 0
  /\ (parser.inArray # <<>> /\ isInArray(parser) /\ Accepts(StringTokens)) =>
       Last(parser', 1) = <<"\"">>

\* C39: in every state reachable by Format, expectingKey is false whenever
\* the top of the container-kind stack is an array; a string token that is
\* an array element is never emitted as a key, and the error 'object key
\* outside of object context' arises at depth 0 only.
C39_NoKeyInArray == []NoKeyInArray /\ [][NoKeyAsElement]_vars

\* A string has been written as an element of an array, after an object
\* that closed inside the array.
C39_Witness ==
  /\ pc = "loop"
  /\ Len(stream) >= 4
  /\ stream[Len(stream)] \in StringTokens
  /\ stream[Len(stream) - 1] = Delim("}")
  /\ isInArray(parser)
  /\ ~parser.expectingKey
  /\ Last(parser, 1) = <<"\"">>

\* A step in which processToken has returned an error for a token: a call of
\* a test, or the iteration of the loop of Format that has counted the token
\* and handed it to processToken.
Rejects ==
  /\ tokenCount' = tokenCount + 1
  /\ err' # NoError
  /\ \/ call = "engine"
     \/ pc = "loop" /\ ~tooManyTokens(tokenCount')

\* C40 (steps): a rejected token leaves depth, stack, isFirstElement,
\* expectingKey and the output buffer as they were.
RejectedUnchanged ==
  Rejects =>
    /\ parser'.depth = parser.depth
    /\ parser'.inArray = parser.inArray
    /\ parser'.isFirstElement = parser.isFirstElement
    /\ parser'.expectingKey = parser.expectingKey
    /\ parser'.builder = parser.builder

\* C40: under a valid configuration, a token that processToken rejects with
\* an error leaves the engine exactly as it was before the token.
C40_RejectedTokenNoEffect == [][RejectedUnchanged]_vars

\* Format has returned on the opening bracket that the depth limit rejects:
\* startArray was called at depth MaxDepth, after MaxDepth brackets that
\* were accepted and written.
C40_Witness ==
  /\ call = "deep"
  /\ pc = "done"
  /\ tokenCount = MaxDepth + 1
  /\ stream[tokenCount] = Delim("[")
  /\ err = NewFormatError(TooDeep)
  /\ parser.depth = MaxDepth
  /\ Len(parser.inArray) = MaxDepth
  /\ parser.isFirstElement
  /\ Last(parser, 1) = <<"[">>
====
